---- MODULE Spec2Model ----
(***************************************************************************)
(* A small-step model of the tree-walking interpreter of                   *)
(* src/interpreter/interpreter.py together with the object model of        *)
(* src/parser/runtime.py.  The Python call stack is the sequence kont of   *)
(* frames (innermost first); ctl says what the innermost activation is     *)
(* doing: executing a statement, evaluating an expression, calling a       *)
(* callable, entering execute_block, returning a value, or propagating a   *)
(* raised exception.                                                       *)
(***************************************************************************)
EXTENDS Integers, Sequences, FiniteSets, TLC

VARIABLES
    prog,          \* which program (the statements handed to interpret)
    ctl,           \* what the innermost activation does next
    kont,          \* the pending activations, innermost first
    environment,   \* Interpreter.environment, an address into envs
    envs,          \* every Environment object created so far
    heap,          \* list, class and instance objects
    output,        \* the lines written to standard output
    status,        \* "running", "returned" (interpret returned), "escaped"
    started,       \* how many top-level statements interpret has begun
    raised         \* history: every exception object created by a raise

vars == <<prog, ctl, kont, environment, envs, heap, output, status, started, raised>>

---------------------------------------------------------------------------
(* Bounds of the model *)

\* largest number of calls of the closure in the closure programs
MaxCalls == 3
\* deepest nesting of block/if/while/for-each around a return statement
MaxNest == 2
\* largest number of arguments passed in the arity programs
MaxArgs == 3

---------------------------------------------------------------------------
(* Runtime values *)

Nil == [t |-> "nil"]
Bool(b) == [t |-> "bool", v |-> b]
Num(n) == [t |-> "int", v |-> n]
\* a Python float, kept exactly as the fraction v / d in lowest terms, d > 0
Float(n, d) == [t |-> "float", v |-> n, d |-> d]
Str(s) == [t |-> "str", v |-> s]
ListRef(a) == [t |-> "list", a |-> a]
DictRef(a) == [t |-> "dict", a |-> a]
InstanceRef(a) == [t |-> "instance", a |-> a]
ClassRef(a) == [t |-> "class", a |-> a]
Function(declaration, closure) ==
    [t |-> "fun", declaration |-> declaration, closure |-> closure]
BuiltinFunction(arity, fn) ==
    [t |-> "builtin", arity_count |-> arity, fn |-> fn, obj |-> 0]

EmptyMap == [n \in {} |-> Nil]
Put(m, name, value) == (name :> value) @@ m

---------------------------------------------------------------------------
(* The AST (src/parser/ast.py); a token is its lexeme *)

None == [k |-> "None"]
IsNone(node) == node.k = "None"

Literal(value) == [k |-> "literal", value |-> value]
Variable(name) == [k |-> "variable", name |-> name]
Assign(name, value) == [k |-> "assign", name |-> name, value |-> value]
Binary(left, operator, right) ==
    [k |-> "binary", left |-> left, operator |-> operator, right |-> right]
Call(callee, arguments) == [k |-> "call", callee |-> callee, arguments |-> arguments]
Get(object, name) == [k |-> "get", object |-> object, name |-> name]
Set(object, name, value) ==
    [k |-> "set", object |-> object, name |-> name, value |-> value]
Logical(left, operator, right) ==
    [k |-> "logical", left |-> left, operator |-> operator, right |-> right]
List(elements) == [k |-> "list", elements |-> elements]
Index(object, index) == [k |-> "index", object |-> object, index |-> index]
IndexAssign(object, index, value) ==
    [k |-> "index_assign", object |-> object, index |-> index, value |-> value]
Dictionary(keys, values) == [k |-> "dictionary", keys |-> keys, values |-> values]
This == [k |-> "this", keyword |-> "this"]
Super(method) == [k |-> "super", keyword |-> "super", method |-> method]
New(class_name, arguments) ==
    [k |-> "new", class_name |-> class_name, arguments |-> arguments]

ExpressionStmt(expression) == [k |-> "expression", expression |-> expression]
PrintStmt(expression) == [k |-> "print", expression |-> expression]
BlockStmt(statements) == [k |-> "block", statements |-> statements]
IfStmt(condition, then_branch, else_branch) ==
    [k |-> "if", condition |-> condition, then_branch |-> then_branch,
     else_branch |-> else_branch]
WhileStmt(condition, body) == [k |-> "while", condition |-> condition, body |-> body]
ForEach(variable, iterable, body) ==
    [k |-> "foreach", variable |-> variable, iterable |-> iterable, body |-> body]
FunctionStmt(name, params, body) ==
    [k |-> "function", name |-> name, params |-> params, body |-> body]
ReturnStmt(value) == [k |-> "return", value |-> value]
Class(name, superclass, methods) ==
    [k |-> "class", name |-> name, superclass |-> superclass, methods |-> methods]

---------------------------------------------------------------------------
(* Programs: the inputs of interpret *)

\* function make() { n = 0  function inc() { n = n + 1  return n }  return inc }
\* f = make()  print f()  ...  print f()      (k calls)
Closure(k) ==
    << FunctionStmt("make", <<>>,
          << ExpressionStmt(Assign("n", Literal(Num(0)))),
             FunctionStmt("inc", <<>>,
                << ExpressionStmt(Assign("n", Binary(Variable("n"), "PLUS",
                                                     Literal(Num(1))))),
                   ReturnStmt(Variable("n")) >>),
             ReturnStmt(Variable("inc")) >>),
       ExpressionStmt(Assign("f", Call(Variable("make"), <<>>))) >>
    \o [i \in 1..k |-> PrintStmt(Call(Variable("f"), <<>>))]

\* stmt inside d nested statements of the given kind
RECURSIVE Wrap(_, _, _)
Wrap(kind, d, stmt) ==
    IF d = 0 THEN stmt
    ELSE LET inner == Wrap(kind, d - 1, stmt)
             which == IF kind = "Mixed"
                      THEN <<"Block", "If", "While", "ForEach">>[((d - 1) % 4) + 1]
                      ELSE kind
         IN  CASE which = "Block" -> BlockStmt(<<inner>>)
               [] which = "If" ->
                    IF d % 2 = 1
                    THEN IfStmt(Literal(Bool(TRUE)), inner, None)
                    ELSE IfStmt(Literal(Num(0)), PrintStmt(Literal(Str("then"))),
                                inner)
               [] which = "While" -> WhileStmt(Literal(Bool(TRUE)), inner)
               [] which = "ForEach" ->
                    ForEach("i", List(<<Literal(Num(1)), Literal(Num(2))>>), inner)

\* function g() { <ret inside d nested statements>  print "after" }
\* function h() { x = g()  print "h"  return x + 1 }
\* print h()  print "end"
ReturnNested(kind, d, ret) ==
    << FunctionStmt("g", <<>>,
          << Wrap(kind, d, ret), PrintStmt(Literal(Str("after"))) >>),
       FunctionStmt("h", <<>>,
          << ExpressionStmt(Assign("x", Call(Variable("g"), <<>>))),
             PrintStmt(Literal(Str("h"))),
             ReturnStmt(Binary(Variable("x"), "PLUS", Literal(Num(1)))) >>),
       PrintStmt(Call(Variable("h"), <<>>)),
       PrintStmt(Literal(Str("end"))) >>

\* function g() { <return inside d nested blocks>  print "after" }
\* print g()  print "end"
ReturnBare(d) ==
    << FunctionStmt("g", <<>>,
          << Wrap("Mixed", d, ReturnStmt(None)),
             PrintStmt(Literal(Str("after"))) >>),
       PrintStmt(Call(Variable("g"), <<>>)),
       PrintStmt(Literal(Str("end"))) >>

ArgList(n) == [i \in 1..n |-> Literal(Num(i))]

\* function f(a, b) { print "body"  g = a  return a }
\* x = f(1, ..., n)  print "end"
Arity(n) ==
    << FunctionStmt("f", <<"a", "b">>,
          << PrintStmt(Literal(Str("body"))),
             ExpressionStmt(Assign("g", Variable("a"))),
             ReturnStmt(Variable("a")) >>),
       ExpressionStmt(Assign("x", Call(Variable("f"), ArgList(n)))),
       PrintStmt(Literal(Str("end"))) >>

\* class C { init(a, b) { print "init"  this.a = a } }
InitClass ==
    Class("C", None,
       << FunctionStmt("init", <<"a", "b">>,
             << PrintStmt(Literal(Str("init"))),
                ExpressionStmt(Set(This, "a", Variable("a"))) >>) >>)

\* <InitClass>  c = new C(1, ..., n)  print "end"
NewArity(n) ==
    << InitClass,
       ExpressionStmt(Assign("c", New("C", ArgList(n)))),
       PrintStmt(Literal(Str("end"))) >>

\* <InitClass>  c = C(1, ..., n)  print "end"
ClassCall(n) ==
    << InitClass,
       ExpressionStmt(Assign("c", Call(Variable("C"), ArgList(n)))),
       PrintStmt(Literal(Str("end"))) >>

\* the programs that take no parameter, by name
Programs ==
      \* x = 1  { x = 2 }  print x
    [ BlockAssign |->
        << ExpressionStmt(Assign("x", Literal(Num(1)))),
           BlockStmt(<< ExpressionStmt(Assign("x", Literal(Num(2)))) >>),
           PrintStmt(Variable("x")) >>,
      \* x = 1  { x = 2  y = 3  print y }  print x  print y  print x
      BlockLocal |->
        << ExpressionStmt(Assign("x", Literal(Num(1)))),
           BlockStmt(<< ExpressionStmt(Assign("x", Literal(Num(2)))),
                        ExpressionStmt(Assign("y", Literal(Num(3)))),
                        PrintStmt(Variable("y")) >>),
           PrintStmt(Variable("x")),
           PrintStmt(Variable("y")),
           PrintStmt(Variable("x")) >>,
      \* x = 1  { y = 2  { print z  x = 3 }  x = 4 }  print x
      BlockError |->
        << ExpressionStmt(Assign("x", Literal(Num(1)))),
           BlockStmt(<< ExpressionStmt(Assign("y", Literal(Num(2)))),
                        BlockStmt(<< PrintStmt(Variable("z")),
                                     ExpressionStmt(Assign("x", Literal(Num(3)))) >>),
                        ExpressionStmt(Assign("x", Literal(Num(4)))) >>),
           PrintStmt(Variable("x")) >>,
      \* i = 0  while (i - 2) { i = i + 1 }  for (v in [1, 2]) { print v }
      \* if (i) print i  if (0) print "no"  print "end"
      Loops |->
        << ExpressionStmt(Assign("i", Literal(Num(0)))),
           WhileStmt(Binary(Variable("i"), "MINUS", Literal(Num(2))),
                     BlockStmt(<< ExpressionStmt(Assign("i",
                                     Binary(Variable("i"), "PLUS", Literal(Num(1))))) >>)),
           ForEach("v", List(<<Literal(Num(1)), Literal(Num(2))>>),
                   BlockStmt(<< PrintStmt(Variable("v")) >>)),
           IfStmt(Variable("i"), PrintStmt(Variable("i")), None),
           IfStmt(Literal(Num(0)), PrintStmt(Literal(Str("no"))), None),
           PrintStmt(Literal(Str("end"))) >>,
      \* function f() { { print z } return 1 }  print f()  print 2
      ErrorInFunction |->
        << FunctionStmt("f", <<>>,
              << BlockStmt(<< PrintStmt(Variable("z")) >>),
                 ReturnStmt(Literal(Num(1))) >>),
           PrintStmt(Call(Variable("f"), <<>>)),
           PrintStmt(Literal(Num(2))) >>,
      \* a = [1, 2]  b = a  append(b, 3)  print a  print length(a)  print pop(a)
      \* a.append(4)  print a.pop()  print a.length  pop(1)
      Aliasing |->
        << ExpressionStmt(Assign("a", List(<<Literal(Num(1)), Literal(Num(2))>>))),
           ExpressionStmt(Assign("b", Variable("a"))),
           ExpressionStmt(Call(Variable("append"),
                               <<Variable("b"), Literal(Num(3))>>)),
           PrintStmt(Variable("a")),
           PrintStmt(Call(Variable("length"), <<Variable("a")>>)),
           PrintStmt(Call(Variable("pop"), <<Variable("a")>>)),
           ExpressionStmt(Call(Get(Variable("a"), "append"), <<Literal(Num(4))>>)),
           PrintStmt(Call(Get(Variable("a"), "pop"), <<>>)),
           PrintStmt(Get(Variable("a"), "length")),
           ExpressionStmt(Call(Variable("pop"), <<Literal(Num(1))>>)) >>,
      \* class A { init(v) { this.v = v }  get() { return this.v } }
      \* class B < A { twice() { return this.get() + this.get() } }
      \* b = new B(2)  print b.twice()  b.v = 5  print b.get()  print b.v
      Classes |->
        << Class("A", None,
              << FunctionStmt("init", <<"v">>,
                    << ExpressionStmt(Set(This, "v", Variable("v"))) >>),
                 FunctionStmt("get", <<>>, << ReturnStmt(Get(This, "v")) >>) >>),
           Class("B", Variable("A"),
              << FunctionStmt("twice", <<>>,
                    << ReturnStmt(Binary(Call(Get(This, "get"), <<>>), "PLUS",
                                         Call(Get(This, "get"), <<>>))) >>) >>),
           ExpressionStmt(Assign("b", New("B", <<Literal(Num(2))>>))),
           PrintStmt(Call(Get(Variable("b"), "twice"), <<>>)),
           ExpressionStmt(Set(Variable("b"), "v", Literal(Num(5)))),
           PrintStmt(Call(Get(Variable("b"), "get"), <<>>)),
           PrintStmt(Get(Variable("b"), "v")) >>,
      \* class A {}  a = new A()  print a.x  print 1
      UndefinedProperty |->
        << Class("A", None, <<>>),
           ExpressionStmt(Assign("a", New("A", <<>>))),
           PrintStmt(Get(Variable("a"), "x")),
           PrintStmt(Literal(Num(1))) >>,
      \* class A { m() { return "A" } }
      \* class B < A { m() { return "B" + super.m() } }
      \* class C < B { m() { return "C" + super.m() } }
      \* c = new C()  print c.m()  print "end"
      Super3 |->
        << Class("A", None,
              << FunctionStmt("m", <<>>, << ReturnStmt(Literal(Str("A"))) >>) >>),
           Class("B", Variable("A"),
              << FunctionStmt("m", <<>>,
                    << ReturnStmt(Binary(Literal(Str("B")), "PLUS",
                                         Call(Super("m"), <<>>))) >>) >>),
           Class("C", Variable("B"),
              << FunctionStmt("m", <<>>,
                    << ReturnStmt(Binary(Literal(Str("C")), "PLUS",
                                         Call(Super("m"), <<>>))) >>) >>),
           ExpressionStmt(Assign("c", New("C", <<>>))),
           PrintStmt(Call(Get(Variable("c"), "m"), <<>>)),
           PrintStmt(Literal(Str("end"))) >>,
      \* print 1  { return 5 }  print 2
      TopReturn |->
        << PrintStmt(Literal(Num(1))),
           BlockStmt(<< ReturnStmt(Literal(Num(5))) >>),
           PrintStmt(Literal(Num(2))) >>,
      \* x = 1  function f() { x = 2  y = 3  { y = 4  z = 5 }  print y }
      \* f()  print x  print y
      AssignScopes |->
        << ExpressionStmt(Assign("x", Literal(Num(1)))),
           FunctionStmt("f", <<>>,
              << ExpressionStmt(Assign("x", Literal(Num(2)))),
                 ExpressionStmt(Assign("y", Literal(Num(3)))),
                 BlockStmt(<< ExpressionStmt(Assign("y", Literal(Num(4)))),
                              ExpressionStmt(Assign("z", Literal(Num(5)))) >>),
                 PrintStmt(Variable("y")) >>),
           ExpressionStmt(Call(Variable("f"), <<>>)),
           PrintStmt(Variable("x")),
           PrintStmt(Variable("y")) >>,
      \* function callee() { print v }  function caller() { v = 1  callee() }
      \* function rec(n, m) { if (n) { rec(n - 1, n) }  print n  print m }
      \* rec(2, 0)  caller()  print "end"
      CallScope |->
        << FunctionStmt("callee", <<>>, << PrintStmt(Variable("v")) >>),
           FunctionStmt("caller", <<>>,
              << ExpressionStmt(Assign("v", Literal(Num(1)))),
                 ExpressionStmt(Call(Variable("callee"), <<>>)) >>),
           FunctionStmt("rec", <<"n", "m">>,
              << IfStmt(Variable("n"),
                        BlockStmt(<< ExpressionStmt(
                                        Call(Variable("rec"),
                                             << Binary(Variable("n"), "MINUS",
                                                       Literal(Num(1))),
                                                Variable("n") >>)) >>),
                        None),
                 PrintStmt(Variable("n")),
                 PrintStmt(Variable("m")) >>),
           ExpressionStmt(Call(Variable("rec"), <<Literal(Num(2)), Literal(Num(0))>>)),
           ExpressionStmt(Call(Variable("caller"), <<>>)),
           PrintStmt(Literal(Str("end"))) >>,
      \* a = [1, 2]  b = a  append(b, 3)  b[0] = 9  print a
      \* m = {"k": 1}  n = m  n["k"] = 2  n["j"] = 3  print m
      \* class P { }  p = new P()  q = p
      \* function f(l, d, i) { pop(l)  d["z"] = 0  i.x = 1 }
      \* f(a, m, p)  print b  print n  print q.x  q.x = 5  print p.x
      SharedAggregates |->
        << ExpressionStmt(Assign("a", List(<<Literal(Num(1)), Literal(Num(2))>>))),
           ExpressionStmt(Assign("b", Variable("a"))),
           ExpressionStmt(Call(Variable("append"), <<Variable("b"), Literal(Num(3))>>)),
           ExpressionStmt(IndexAssign(Variable("b"), Literal(Num(0)), Literal(Num(9)))),
           PrintStmt(Variable("a")),
           ExpressionStmt(Assign("m", Dictionary(<<Literal(Str("k"))>>,
                                                 <<Literal(Num(1))>>))),
           ExpressionStmt(Assign("n", Variable("m"))),
           ExpressionStmt(IndexAssign(Variable("n"), Literal(Str("k")), Literal(Num(2)))),
           ExpressionStmt(IndexAssign(Variable("n"), Literal(Str("j")), Literal(Num(3)))),
           PrintStmt(Variable("m")),
           Class("P", None, <<>>),
           ExpressionStmt(Assign("p", New("P", <<>>))),
           ExpressionStmt(Assign("q", Variable("p"))),
           FunctionStmt("f", <<"l", "d", "i">>,
              << ExpressionStmt(Call(Variable("pop"), <<Variable("l")>>)),
                 ExpressionStmt(IndexAssign(Variable("d"), Literal(Str("z")),
                                            Literal(Num(0)))),
                 ExpressionStmt(Set(Variable("i"), "x", Literal(Num(1)))) >>),
           ExpressionStmt(Call(Variable("f"),
                               <<Variable("a"), Variable("m"), Variable("p")>>)),
           PrintStmt(Variable("b")),
           PrintStmt(Variable("n")),
           PrintStmt(Get(Variable("q"), "x")),
           ExpressionStmt(Set(Variable("q"), "x", Literal(Num(5)))),
           PrintStmt(Get(Variable("p"), "x")) >>,
      \* class A { init(v) { this.v = v  return 42 } }  class B < A { }  class N { }
      \* b = new B(7)  print b.v  n = new N()  n.k = 1  print n.k  print "end"
      InitReturn |->
        << Class("A", None,
              << FunctionStmt("init", <<"v">>,
                    << ExpressionStmt(Set(This, "v", Variable("v"))),
                       ReturnStmt(Literal(Num(42))) >>) >>),
           Class("B", Variable("A"), <<>>),
           Class("N", None, <<>>),
           ExpressionStmt(Assign("b", New("B", <<Literal(Num(7))>>))),
           PrintStmt(Get(Variable("b"), "v")),
           ExpressionStmt(Assign("n", New("N", <<>>))),
           ExpressionStmt(Set(Variable("n"), "k", Literal(Num(1)))),
           PrintStmt(Get(Variable("n"), "k")),
           PrintStmt(Literal(Str("end"))) >>,
      \* class A { m() { return "A.m" }  k() { return this.n } }
      \* class B < A { m() { return "B.m" } }
      \* b = new B()  b.n = 7  print b.m()  print b.k()  b.m = 5  print b.m
      \* print b.zz  print "end"
      PropertyRead |->
        << Class("A", None,
              << FunctionStmt("m", <<>>, << ReturnStmt(Literal(Str("A.m"))) >>),
                 FunctionStmt("k", <<>>, << ReturnStmt(Get(This, "n")) >>) >>),
           Class("B", Variable("A"),
              << FunctionStmt("m", <<>>, << ReturnStmt(Literal(Str("B.m"))) >>) >>),
           ExpressionStmt(Assign("b", New("B", <<>>))),
           ExpressionStmt(Set(Variable("b"), "n", Literal(Num(7)))),
           PrintStmt(Call(Get(Variable("b"), "m"), <<>>)),
           PrintStmt(Call(Get(Variable("b"), "k"), <<>>)),
           ExpressionStmt(Set(Variable("b"), "m", Literal(Num(5)))),
           PrintStmt(Get(Variable("b"), "m")),
           PrintStmt(Get(Variable("b"), "zz")),
           PrintStmt(Literal(Str("end"))) >>,
      \* class C { who() { return this.name } }
      \* a = new C()  a.name = "a"  b = new C()  b.name = "b"
      \* f = a.who  g = b.who  h = a.who  print f()  print g()  print h()  print f()
      MethodBinding |->
        << Class("C", None,
              << FunctionStmt("who", <<>>, << ReturnStmt(Get(This, "name")) >>) >>),
           ExpressionStmt(Assign("a", New("C", <<>>))),
           ExpressionStmt(Set(Variable("a"), "name", Literal(Str("a")))),
           ExpressionStmt(Assign("b", New("C", <<>>))),
           ExpressionStmt(Set(Variable("b"), "name", Literal(Str("b")))),
           ExpressionStmt(Assign("f", Get(Variable("a"), "who"))),
           ExpressionStmt(Assign("g", Get(Variable("b"), "who"))),
           ExpressionStmt(Assign("h", Get(Variable("a"), "who"))),
           PrintStmt(Call(Variable("f"), <<>>)),
           PrintStmt(Call(Variable("g"), <<>>)),
           PrintStmt(Call(Variable("h"), <<>>)),
           PrintStmt(Call(Variable("f"), <<>>)) >>,
      \* x = 1  for (x in [7, 8]) { print x }  print x
      \* function f(x) { print x  { function x() { }  print x }  print x }
      \* f(2)  print x
      Shadowing |->
        << ExpressionStmt(Assign("x", Literal(Num(1)))),
           ForEach("x", List(<<Literal(Num(7)), Literal(Num(8))>>),
                   BlockStmt(<< PrintStmt(Variable("x")) >>)),
           PrintStmt(Variable("x")),
           FunctionStmt("f", <<"x">>,
              << PrintStmt(Variable("x")),
                 BlockStmt(<< FunctionStmt("x", <<>>, <<>>),
                              PrintStmt(Variable("x")) >>),
                 PrintStmt(Variable("x")) >>),
           ExpressionStmt(Call(Variable("f"), <<Literal(Num(2))>>)),
           PrintStmt(Variable("x")) >>,
      \* a = [1, 2]  function f(l) { for (w in l) { w = w + 10  return w } }
      \* for (v in a) { print v  v = v + 10  print v }  print a  print f(a)
      \* print a  for (u in a) { u = 0  print zz }  print "unreached"
      ForEachScope |->
        << ExpressionStmt(Assign("a", List(<<Literal(Num(1)), Literal(Num(2))>>))),
           FunctionStmt("f", <<"l">>,
              << ForEach("w", Variable("l"),
                    BlockStmt(<< ExpressionStmt(Assign("w",
                                    Binary(Variable("w"), "PLUS", Literal(Num(10))))),
                                 ReturnStmt(Variable("w")) >>)) >>),
           ForEach("v", Variable("a"),
              BlockStmt(<< PrintStmt(Variable("v")),
                           ExpressionStmt(Assign("v",
                              Binary(Variable("v"), "PLUS", Literal(Num(10))))),
                           PrintStmt(Variable("v")) >>)),
           PrintStmt(Variable("a")),
           PrintStmt(Call(Variable("f"), <<Variable("a")>>)),
           PrintStmt(Variable("a")),
           ForEach("u", Variable("a"),
              BlockStmt(<< ExpressionStmt(Assign("u", Literal(Num(0)))),
                           PrintStmt(Variable("zz")) >>)),
           PrintStmt(Literal(Str("unreached"))) >>,
      \* function p(x) { print x  return x }  p(0)(p(1), p(2))  print "unreached"
      CallOrder |->
        << FunctionStmt("p", <<"x">>, << PrintStmt(Variable("x")),
                                        ReturnStmt(Variable("x")) >>),
           ExpressionStmt(Call(Call(Variable("p"), <<Literal(Num(0))>>),
                               << Call(Variable("p"), <<Literal(Num(1))>>),
                                  Call(Variable("p"), <<Literal(Num(2))>>) >>)),
           PrintStmt(Literal(Str("unreached"))) >>,
      \* function p(x) { print x  return x }  p(p(1), p(2))  print "unreached"
      CallArityOrder |->
        << FunctionStmt("p", <<"x">>, << PrintStmt(Variable("x")),
                                        ReturnStmt(Variable("x")) >>),
           ExpressionStmt(Call(Variable("p"),
                               << Call(Variable("p"), <<Literal(Num(1))>>),
                                  Call(Variable("p"), <<Literal(Num(2))>>) >>)),
           PrintStmt(Literal(Str("unreached"))) >>,
      \* function g() { { for (i in [1]) { print zz } } }
      \* { for (j in [1, 2]) { g() } }  print "unreached"
      DeepError |->
        << FunctionStmt("g", <<>>,
              << BlockStmt(<< ForEach("i", List(<<Literal(Num(1))>>),
                                 BlockStmt(<< PrintStmt(Variable("zz")) >>)) >>) >>),
           BlockStmt(<< ForEach("j", List(<<Literal(Num(1)), Literal(Num(2))>>),
                           BlockStmt(<< ExpressionStmt(
                                           Call(Variable("g"), <<>>)) >>)) >>),
           PrintStmt(Literal(Str("unreached"))) >>,
      \* a = [1]  for (x in a) { print x  if (length(a) - 3) { append(a, x + 1) } }
      \* print a  print "end"
      ForEachAppend |->
        << ExpressionStmt(Assign("a", List(<<Literal(Num(1))>>))),
           ForEach("x", Variable("a"),
              BlockStmt(<< PrintStmt(Variable("x")),
                           IfStmt(Binary(Call(Variable("length"), <<Variable("a")>>),
                                         "MINUS", Literal(Num(3))),
                                  BlockStmt(<< ExpressionStmt(
                                     Call(Variable("append"),
                                          << Variable("a"),
                                             Binary(Variable("x"), "PLUS",
                                                    Literal(Num(1))) >>)) >>),
                                  None) >>)),
           PrintStmt(Variable("a")),
           PrintStmt(Literal(Str("end"))) >>,
      \* m = {"a": 1}  for (k in m) { print k  m[k + "x"] = 1 }  print length(m)
      \* for (c in "ab") { print c }  print "end"
      ForEachSnapshot |->
        << ExpressionStmt(Assign("m", Dictionary(<<Literal(Str("a"))>>,
                                                 <<Literal(Num(1))>>))),
           ForEach("k", Variable("m"),
              BlockStmt(<< PrintStmt(Variable("k")),
                           ExpressionStmt(IndexAssign(Variable("m"),
                              Binary(Variable("k"), "PLUS", Literal(Str("x"))),
                              Literal(Num(1)))) >>)),
           PrintStmt(Call(Variable("length"), <<Variable("m")>>)),
           ForEach("c", Literal(Str("ab")),
              BlockStmt(<< PrintStmt(Variable("c")) >>)),
           PrintStmt(Literal(Str("end"))) >>,
      \* function f(a) { return a }  x = new f(5)  print x
      \* print new length("ab")  print "end"
      NewFunction |->
        << FunctionStmt("f", <<"a">>, << ReturnStmt(Variable("a")) >>),
           ExpressionStmt(Assign("x", New("f", <<Literal(Num(5))>>))),
           PrintStmt(Variable("x")),
           PrintStmt(New("length", <<Literal(Str("ab"))>>)),
           PrintStmt(Literal(Str("end"))) >>,
      \* class A < A { }  print "unreached"
      SuperSelf |->
        << Class("A", Variable("A"), <<>>),
           PrintStmt(Literal(Str("unreached"))) >>,
      \* class A { }  class A < A { }  print "unreached"
      SuperRedeclared |->
        << Class("A", None, <<>>),
           Class("A", Variable("A"), <<>>),
           PrintStmt(Literal(Str("unreached"))) >>,
      \* class B < U { }  print "unreached"
      SuperUndefined |->
        << Class("B", Variable("U"), <<>>),
           PrintStmt(Literal(Str("unreached"))) >>,
      \* function f() { }  class C < f { }  print "unreached"
      SuperNonClass |->
        << FunctionStmt("f", <<>>, <<>>),
           Class("C", Variable("f"), <<>>),
           PrintStmt(Literal(Str("unreached"))) >>,
      \* b = [1, 2, 3]  print pop(b)  print b  print b.pop()  print b
      \* c = []  print c.pop()  print c  print pop(c)  print "unreached"
      PopForms |->
        << ExpressionStmt(Assign("b", List(<<Literal(Num(1)), Literal(Num(2)),
                                             Literal(Num(3))>>))),
           PrintStmt(Call(Variable("pop"), <<Variable("b")>>)),
           PrintStmt(Variable("b")),
           PrintStmt(Call(Get(Variable("b"), "pop"), <<>>)),
           PrintStmt(Variable("b")),
           ExpressionStmt(Assign("c", List(<<>>))),
           PrintStmt(Call(Get(Variable("c"), "pop"), <<>>)),
           PrintStmt(Variable("c")),
           PrintStmt(Call(Variable("pop"), <<Variable("c")>>)),
           PrintStmt(Literal(Str("unreached"))) >> ]

\* one expression for each kind of value: an int, a float (4 / 2 is 2.0),
\* a bool, nil (the result of n()), a string, a list, a map, a function, a
\* class and an instance; then the two zeros, the int 0 and the float 0.0
\* (0 / 2)
Operands ==
    << Literal(Num(2)),
       Binary(Literal(Num(4)), "SLASH", Literal(Num(2))),
       Literal(Bool(TRUE)),
       Call(Variable("n"), <<>>),
       Literal(Str("s")),
       List(<<Literal(Num(1)), Literal(Str("a"))>>),
       Dictionary(<<Literal(Str("k"))>>, <<Literal(Num(1))>>),
       Variable("n"),
       Variable("K"),
       New("K", <<>>),
       Literal(Num(0)),
       Binary(Literal(Num(0)), "SLASH", Literal(Num(2))) >>

Operators == <<"MINUS", "SLASH", "MODULO", "EXPODENT", "PLUS">>

\* function n() { }  class K { }
Prelude ==
    << FunctionStmt("n", <<>>, <<>>),
       Class("K", None, <<>>) >>

\* <Prelude>  l = <left>  r = <right>  print l <op> r  print "end"
BinaryOf(op, left, right) ==
    Prelude \o
    << ExpressionStmt(Assign("l", Operands[left])),
       ExpressionStmt(Assign("r", Operands[right])),
       PrintStmt(Binary(Variable("l"), Operators[op], Variable("r"))),
       PrintStmt(Literal(Str("end"))) >>

\* <Prelude>  l = <key>  d = {l: 1}  print length(d)  print "end"
KeyLiteral(key) ==
    Prelude \o
    << ExpressionStmt(Assign("l", Operands[key])),
       ExpressionStmt(Assign("d", Dictionary(<<Variable("l")>>,
                                             <<Literal(Num(1))>>))),
       PrintStmt(Call(Variable("length"), <<Variable("d")>>)),
       PrintStmt(Literal(Str("end"))) >>

\* <Prelude>  l = <key>  m = {"a": 1}  m[l] = 2  print length(m)  print "end"
KeyAssign(key) ==
    Prelude \o
    << ExpressionStmt(Assign("l", Operands[key])),
       ExpressionStmt(Assign("m", Dictionary(<<Literal(Str("a"))>>,
                                             <<Literal(Num(1))>>))),
       ExpressionStmt(IndexAssign(Variable("m"), Variable("l"), Literal(Num(2)))),
       PrintStmt(Call(Variable("length"), <<Variable("m")>>)),
       PrintStmt(Literal(Str("end"))) >>

\* <Prelude>  l = <object>  r = <index>  print l[r]  print "end"
IndexOf(object, index) ==
    Prelude \o
    << ExpressionStmt(Assign("l", Operands[object])),
       ExpressionStmt(Assign("r", Operands[index])),
       PrintStmt(Index(Variable("l"), Variable("r"))),
       PrintStmt(Literal(Str("end"))) >>

\* the programs built from two operands that take part in no arithmetic:
\* LogicalOf, with op 1 for and, 2 for or:
\*   <Prelude>  function p(x) { print "left"  return x }
\*   function q(x) { print "right"  return x }
\*   l = <left>  r = <right>  v = p(l) <op> q(r)  print v  print "end"
OperandProgram(name, op, left, right) ==
    CASE name = "LogicalOf" ->
           Prelude \o
           << FunctionStmt("p", <<"x">>, << PrintStmt(Literal(Str("left"))),
                                           ReturnStmt(Variable("x")) >>),
              FunctionStmt("q", <<"x">>, << PrintStmt(Literal(Str("right"))),
                                           ReturnStmt(Variable("x")) >>),
              ExpressionStmt(Assign("l", Operands[left])),
              ExpressionStmt(Assign("r", Operands[right])),
              ExpressionStmt(Assign("v",
                  Logical(Call(Variable("p"), <<Variable("l")>>),
                          IF op = 1 THEN "AND" ELSE "OR",
                          Call(Variable("q"), <<Variable("r")>>)))),
              PrintStmt(Variable("v")),
              PrintStmt(Literal(Str("end"))) >>

\* the program number of print l <op> r, and its parts
BinaryId(op, left, right) ==
    ((op - 1) * Len(Operands) + (left - 1)) * Len(Operands) + (right - 1)
OpOf(n) == (n \div (Len(Operands) * Len(Operands))) + 1
LeftOf(n) == ((n \div Len(Operands)) % Len(Operands)) + 1
RightOf(n) == (n % Len(Operands)) + 1

ProgId(name, n) == [name |-> name, n |-> n]

ReturnKinds == {"Block", "If", "While", "ForEach", "Mixed"}

ProgIds ==
    { ProgId(name, 0) : name \in DOMAIN Programs }
    \cup { ProgId("Closure", k) : k \in 1..MaxCalls }
    \cup { ProgId(kind, d) : kind \in ReturnKinds, d \in 0..MaxNest }
    \cup { ProgId("ReturnBare", d) : d \in 0..MaxNest }
    \cup { ProgId(name, n) : name \in {"Arity", "NewArity", "ClassCall"},
                              n \in 0..MaxArgs }
    \cup { ProgId("BinaryOf", BinaryId(op, left, right)) :
               op \in DOMAIN Operators, left \in DOMAIN Operands,
               right \in DOMAIN Operands }
    \cup { ProgId(name, key) : name \in {"KeyLiteral", "KeyAssign"},
                                key \in DOMAIN Operands }
    \cup { ProgId("IndexOf", BinaryId(1, object, index)) :
               object \in DOMAIN Operands, index \in DOMAIN Operands }
    \cup { ProgId("LogicalOf", BinaryId(op, left, right)) :
               op \in 1..2, left \in DOMAIN Operands, right \in DOMAIN Operands }

Program(p) ==
    CASE p.name \in DOMAIN Programs -> Programs[p.name]
      [] p.name = "Closure" -> Closure(p.n)
      [] p.name \in ReturnKinds -> ReturnNested(p.name, p.n, ReturnStmt(Literal(Num(7))))
      [] p.name = "ReturnBare" -> ReturnBare(p.n)
      [] p.name = "Arity" -> Arity(p.n)
      [] p.name = "NewArity" -> NewArity(p.n)
      [] p.name = "ClassCall" -> ClassCall(p.n)
      [] p.name = "BinaryOf" -> BinaryOf(OpOf(p.n), LeftOf(p.n), RightOf(p.n))
      [] p.name = "KeyLiteral" -> KeyLiteral(p.n)
      [] p.name = "KeyAssign" -> KeyAssign(p.n)
      [] p.name = "IndexOf" -> IndexOf(LeftOf(p.n), RightOf(p.n))
      [] OTHER -> OperandProgram(p.name, OpOf(p.n), LeftOf(p.n), RightOf(p.n))

statements == Program(prog)

---------------------------------------------------------------------------
(* Environment (interpreter.py 14-48) *)

Environment(enclosing) == [values |-> EmptyMap, enclosing |-> enclosing]

define_mut(es, e, name, value) ==
    [x \in DOMAIN es |->
        IF x = e THEN [es[x] EXCEPT !.values = Put(@, name, value)]
        ELSE IF x = es[e].enclosing
        THEN [es[x] EXCEPT !.values =
                 [n \in (DOMAIN es[x].values) \ {name} |-> es[x].values[n]]]
        ELSE es[x]]

\* Environment.define on the object at address e
define(es, e, name, value) ==
    [es EXCEPT ![e].values = Put(@, name, value)]

\* the innermost environment from e outwards that holds name, 0 when none does
RECURSIVE Resolve(_, _, _)
Resolve(es, e, name) ==
    IF e = 0 THEN 0
    ELSE IF name \in DOMAIN es[e].values THEN e
    ELSE Resolve(es, es[e].enclosing, name)

Found(v) == [ok |-> TRUE, v |-> v]
NotFound == [ok |-> FALSE, v |-> Nil]

\* Environment.get; NotFound stands for its raise
RECURSIVE Environment_get(_, _, _)
Environment_get(es, e, name) ==
    IF name \in DOMAIN es[e].values THEN Found(es[e].values[name])
    ELSE IF es[e].enclosing # 0 THEN Environment_get(es, es[e].enclosing, name)
    ELSE NotFound

lookup_variable(es, e, name) ==
    LET d == Resolve(es, e, name)
    IN  IF d = 0 THEN NotFound ELSE Found(es[d].values[name])

\* the environments after Interpreter.assign_variable
assign_variable_mut(es, e, name, value) ==
    define(es, e, name, value)

assign_variable_undefined_mut(es, e, name, value) ==
    LET d == Resolve(es, e, name)
    IN  IF d # 0 THEN [es EXCEPT ![d].values[name] = value]
        ELSE es

assign_variable(es, e, name, value) ==
    LET d == Resolve(es, e, name)
    IN  IF d # 0 THEN [es EXCEPT ![d].values[name] = value]
        ELSE define(es, e, name, value)

---------------------------------------------------------------------------
(* Exceptions *)

\* interpreter.RuntimeError, the class interpret catches
RuntimeError(msg) == [cls |-> "RuntimeError", msg |-> msg, value |-> Nil]
ReturnException(value) == [cls |-> "ReturnException", msg |-> "", value |-> value]
\* an exception class of the host that is not interpreter.RuntimeError
HostError(cls, msg) == [cls |-> cls, msg |-> msg, value |-> Nil]

IsError(exc) == exc.cls # "ReturnException"

---------------------------------------------------------------------------
(* stringify (interpreter.py 550-572) *)

Digits == <<"0", "1", "2", "3", "4", "5", "6", "7", "8", "9">>

RECURSIVE NatStr(_)
NatStr(n) ==
    IF n < 10 THEN Digits[n + 1] ELSE NatStr(n \div 10) \o Digits[(n % 10) + 1]

\* Python's str() of an int
IntStr(n) == IF n < 0 THEN "-" \o NatStr(-n) ELSE NatStr(n)

\* Python's isinstance(value, (int, float)): bool is a subclass of int
IsNumber(value) == value.t \in {"int", "bool", "float"}
\* Python's isinstance(value, int)
IsInt(value) == value.t \in {"int", "bool"}
\* a number is the fraction NumVal / DenVal
NumVal(value) == IF value.t = "bool" THEN (IF value.v THEN 1 ELSE 0) ELSE value.v
DenVal(value) == IF value.t = "float" THEN value.d ELSE 1

Abs(n) == IF n < 0 THEN -n ELSE n

RECURSIVE GCD(_, _)
GCD(a, b) == IF b = 0 THEN a ELSE GCD(b, a % b)

\* the Python number n / d (d # 0): an int when the operation yields an int
\* (then d = 1), else a float
Number(n, d, isInt) ==
    LET g == GCD(Abs(n), Abs(d))
        sign == IF d < 0 THEN -1 ELSE 1
    IN  IF isInt THEN Num(n \div d)
        ELSE Float((sign * n) \div g, (sign * d) \div g)

\* Python's floor division of integers, y # 0
FloorDiv(x, y) == IF y > 0 THEN x \div y ELSE (-x) \div (-y)

RECURSIVE Pow(_, _)
Pow(b, e) == IF e = 0 THEN 1 ELSE b * Pow(b, e - 1)

\* Python's str() of a float n / d: the integer part and the decimal digits.
\* Exact for the values whose expansion ends within 16 digits, which are
\* the only floats the programs of this model produce; exponent notation
\* (magnitudes from 1e16 or below 1e-4) is outside the model's numbers.
RECURSIVE FracDigits(_, _, _)
FracDigits(r, d, k) ==
    IF r = 0 \/ k = 0 THEN ""
    ELSE Digits[((r * 10) \div d) + 1] \o FracDigits((r * 10) % d, d, k - 1)

FloatText(n, d) ==
    [int |-> (IF n < 0 THEN "-" ELSE "") \o NatStr(Abs(n) \div d),
     frac |-> IF Abs(n) % d = 0 THEN "0" ELSE FracDigits(Abs(n) % d, d, 16)]

FloatStr(n, d) == FloatText(n, d).int \o "." \o FloatText(n, d).frac

RECURSIVE stringify(_, _)
RECURSIVE JoinStringify(_, _, _)
JoinStringify(h, items, i) ==
    IF i > Len(items) THEN ""
    ELSE (IF i > 1 THEN ", " ELSE "") \o stringify(h, items[i])
         \o JoinStringify(h, items, i + 1)

RECURSIVE JoinStringifyItems(_, _, _, _)
JoinStringifyItems(h, keys, vals, i) ==
    IF i > Len(keys) THEN ""
    ELSE (IF i > 1 THEN ", " ELSE "") \o stringify(h, keys[i]) \o ": "
         \o stringify(h, vals[i]) \o JoinStringifyItems(h, keys, vals, i + 1)

stringify(h, value) ==
    CASE value.t = "nil" -> "nil"
      [] value.t = "bool" -> IF value.v THEN "true" ELSE "false"
      [] value.t = "int" -> IntStr(value.v)
      [] value.t = "float" ->
           LET text == FloatText(value.v, value.d)
           IN  IF text.frac = "0" THEN text.int
               ELSE text.int \o "." \o text.frac
      [] value.t = "str" -> value.v
      [] value.t = "list" -> "[" \o JoinStringify(h, h[value.a].items, 1) \o "]"
      [] value.t = "dict" ->
           "{" \o JoinStringifyItems(h, h[value.a].keys, h[value.a].vals, 1) \o "}"
      [] value.t = "fun" -> "<function " \o value.declaration.name \o ">"
      [] value.t = "builtin" -> "<native function>"
      [] value.t = "class" -> h[value.a].name
      [] value.t = "instance" -> "<LoxInstance object>"

\* Python's str(value), used by the implicit conversion of +
RECURSIVE py_str(_, _)
RECURSIVE JoinRepr(_, _, _)
RECURSIVE JoinReprItems(_, _, _, _)
py_repr(h, value) ==
    IF value.t = "str" THEN "'" \o value.v \o "'" ELSE py_str(h, value)

JoinRepr(h, items, i) ==
    IF i > Len(items) THEN ""
    ELSE (IF i > 1 THEN ", " ELSE "") \o py_repr(h, items[i])
         \o JoinRepr(h, items, i + 1)

JoinReprItems(h, keys, vals, i) ==
    IF i > Len(keys) THEN ""
    ELSE (IF i > 1 THEN ", " ELSE "") \o py_repr(h, keys[i]) \o ": "
         \o py_repr(h, vals[i]) \o JoinReprItems(h, keys, vals, i + 1)

py_str(h, value) ==
    CASE value.t = "nil" -> "None"
      [] value.t = "bool" -> IF value.v THEN "True" ELSE "False"
      [] value.t = "int" -> IntStr(value.v)
      [] value.t = "float" -> FloatStr(value.v, value.d)
      [] value.t = "str" -> value.v
      [] value.t = "list" -> "[" \o JoinRepr(h, h[value.a].items, 1) \o "]"
      [] value.t = "dict" ->
           "{" \o JoinReprItems(h, h[value.a].keys, h[value.a].vals, 1) \o "}"
      [] value.t = "fun" -> "<function " \o value.declaration.name \o ">"
      [] value.t = "builtin" -> "<native function>"
      [] value.t = "class" -> h[value.a].name
      [] value.t = "instance" -> "<LoxInstance object>"

\* Python's type(value).__name__
TypeName(value) ==
    CASE value.t = "nil" -> "NoneType"
      [] value.t = "fun" -> "Function"
      [] value.t = "builtin" -> "BuiltinFunction"
      [] value.t = "class" -> "LoxClass"
      [] value.t = "instance" -> "LoxInstance"
      [] OTHER -> value.t

\* Interpreter.is_truthy (interpreter.py 530-540)
is_truthy(h, value) ==
    CASE value.t = "nil" -> FALSE
      [] value.t = "bool" -> value.v
      [] value.t \in {"int", "float"} -> value.v # 0
      [] value.t = "str" -> Len(value.v) > 0
      [] value.t = "list" -> Len(h[value.a].items) > 0
      [] value.t = "dict" -> Len(h[value.a].keys) > 0
      [] OTHER -> TRUE

\* Interpreter.check_number_operands (interpreter.py 512-516)
check_number_operands(left, right) == IsNumber(left) /\ IsNumber(right)

\* the result of visit_binary_expr once both operands are evaluated:
\* a value, a new list to allocate, the message of a RuntimeError, or an
\* exception of the host
BinValue(v) == [r |-> "value", v |-> v, items |-> <<>>, msg |-> ""]
BinList(items) == [r |-> "list", v |-> Nil, items |-> items, msg |-> ""]
BinError(msg) == [r |-> "error", v |-> Nil, items |-> <<>>, msg |-> msg]
BinRaise(cls, msg) == [r |-> "host", v |-> Nil, items |-> <<>>, msg |-> msg,
                       cls |-> cls]

\* Python's arithmetic on two numbers; a bool counts as the int 0 or 1
Arith(op, left, right) ==
    LET n1 == NumVal(left)
        d1 == DenVal(left)
        n2 == NumVal(right)
        d2 == DenVal(right)
        ints == IsInt(left) /\ IsInt(right)
    IN  CASE op = "MINUS" -> Number(n1 * d2 - n2 * d1, d1 * d2, ints)
          [] op = "PLUS" -> Number(n1 * d2 + n2 * d1, d1 * d2, ints)
          [] op = "SLASH" -> Number(n1 * d2, d1 * n2, FALSE)
          [] op = "MODULO" ->
               LET q == FloorDiv(n1 * d2, d1 * n2)
               IN  Number(n1 * d2 - q * n2 * d1, d1 * d2, ints)
          \* an exponent with a fractional part is outside the model's numbers
          [] op = "EXPODENT" /\ d2 = 1 /\ n2 >= 0 ->
               Number(Pow(n1, n2), Pow(d1, n2), ints)
          [] op = "EXPODENT" /\ d2 = 1 /\ n2 < 0 ->
               Number(Pow(d1, -n2), Pow(n1, -n2), FALSE)

NumbersError(left, right) ==
    BinError("Operands must be numbers: " \o TypeName(left) \o ", "
             \o TypeName(right))

binary_op_mut(h, op, left, right) ==
    CASE op = "MINUS" ->
           IF check_number_operands(left, right)
           THEN BinValue(Arith(op, left, right))
           ELSE NumbersError(left, right)
      [] op = "SLASH" ->
           IF ~check_number_operands(left, right) THEN NumbersError(left, right)
           ELSE IF NumVal(right) = 0 /\ right.t = "float" THEN BinValue(Str("inf"))
           ELSE IF NumVal(right) = 0 THEN BinError("Division by zero.")
           ELSE BinValue(Arith(op, left, right))
      [] op = "PLUS" ->
           IF IsNumber(left) /\ IsNumber(right)
           THEN BinValue(Arith(op, left, right))
           ELSE IF left.t = "str" /\ right.t = "str"
           THEN BinValue(Str(left.v \o right.v))
           ELSE IF left.t = "list" /\ right.t = "list"
           THEN BinList(h[left.a].items \o h[right.a].items)
           ELSE IF left.t = "str"
           THEN BinValue(Str(left.v \o py_str(h, right)))
           ELSE IF right.t = "str"
           THEN BinValue(Str(py_str(h, left) \o right.v))
           ELSE BinError("Operands must be two numbers, two strings, or two lists: "
                         \o TypeName(left) \o ", " \o TypeName(right))
      [] op = "MODULO" ->
           IF ~check_number_operands(left, right) THEN NumbersError(left, right)
           ELSE IF NumVal(right) = 0 /\ right.t = "float" THEN BinValue(Str("nan"))
           ELSE IF NumVal(right) = 0 THEN BinError("Modulo by zero.")
           ELSE BinValue(Arith(op, left, right))
      [] op = "EXPODENT" ->
           IF ~check_number_operands(left, right) THEN NumbersError(left, right)
           ELSE IF NumVal(left) = 0 /\ NumVal(right) < 0
           THEN BinRaise("ZeroDivisionError",
                         "0.0 cannot be raised to a negative power")
           ELSE BinValue(Arith(op, left, right))

binary_op(h, op, left, right) ==
    CASE op = "MINUS" ->
           IF check_number_operands(left, right)
           THEN BinValue(Arith(op, left, right))
           ELSE NumbersError(left, right)
      [] op = "SLASH" ->
           IF ~check_number_operands(left, right) THEN NumbersError(left, right)
           ELSE IF NumVal(right) = 0 THEN BinError("Division by zero.")
           ELSE BinValue(Arith(op, left, right))
      [] op = "PLUS" ->
           IF IsNumber(left) /\ IsNumber(right)
           THEN BinValue(Arith(op, left, right))
           ELSE IF left.t = "str" /\ right.t = "str"
           THEN BinValue(Str(left.v \o right.v))
           ELSE IF left.t = "list" /\ right.t = "list"
           THEN BinList(h[left.a].items \o h[right.a].items)
           ELSE IF left.t = "str"
           THEN BinValue(Str(left.v \o py_str(h, right)))
           ELSE IF right.t = "str"
           THEN BinValue(Str(py_str(h, left) \o right.v))
           ELSE BinError("Operands must be two numbers, two strings, or two lists: "
                         \o TypeName(left) \o ", " \o TypeName(right))
      [] op = "MODULO" ->
           IF ~check_number_operands(left, right) THEN NumbersError(left, right)
           ELSE IF NumVal(right) = 0 THEN BinError("Modulo by zero.")
           ELSE BinValue(Arith(op, left, right))
      [] op = "EXPODENT" ->
           IF ~check_number_operands(left, right) THEN NumbersError(left, right)
           ELSE IF NumVal(left) = 0 /\ NumVal(right) < 0
           THEN BinRaise("ZeroDivisionError",
                         "0.0 cannot be raised to a negative power")
           ELSE BinValue(Arith(op, left, right))

---------------------------------------------------------------------------
(* Steps shared by the handlers *)

Top == Head(kont)
Executing(k) == status = "running" /\ ctl.m = "exec" /\ ctl.node.k = k
Evaluating(k) == status = "running" /\ ctl.m = "eval" /\ ctl.node.k = k
Returning(f) == status = "running" /\ ctl.m = "value" /\ kont # <<>> /\ Top.f = f

Exec(node) == [m |-> "exec", node |-> node]
Eval(node) == [m |-> "eval", node |-> node]
Value(v) == [m |-> "value", v |-> v]
Raise(exc) == [m |-> "raise", exc |-> exc]
CallOf(callee, arguments) == [m |-> "call", callee |-> callee, arguments |-> arguments]
BlockOf(stmts, env) == [m |-> "block", statements |-> stmts, environment |-> env]

Push(frame) == <<frame>> \o kont
Replace(frame) == <<frame>> \o Tail(kont)

\* the history entry of a raise statement
Raised(exc) ==
    Append(raised, [cls |-> exc.cls, msg |-> exc.msg, at |-> started,
                    out |-> Len(output)])

\* whether the activation is inside a try statement of its code
HasTry(frame) ==
    \/ frame.f \in {"interpret", "Function.call", "execute_block"}
    \/ frame.f = "visit_foreach_stmt" /\ frame.phase = "body"

---------------------------------------------------------------------------
(* Initial state: Interpreter() then interpret(statements) is entered *)

\* the address of Interpreter.globals, the first Environment created
Globals == 1

\* the line interpret prints for a caught error
Report(msg) == "Runtime error: " \o msg

define_globals ==
    Put(Put(Put(EmptyMap, "append", BuiltinFunction(2, "append")),
            "pop", BuiltinFunction(1, "pop")),
        "length", BuiltinFunction(1, "length"))

Init ==
    /\ prog \in ProgIds
    /\ ctl = Value(Nil)
    /\ kont = << [f |-> "interpret"] >>
    /\ environment = Globals
    /\ envs = << [values |-> define_globals, enclosing |-> 0] >>
    /\ heap = << >>
    /\ output = << >>
    /\ status = "running"
    /\ started = 0
    /\ raised = << >>

---------------------------------------------------------------------------
(* Interpreter.interpret (interpreter.py 149-156) *)

\* the except clause of interpret: the name RuntimeError is the class that
\* interpreter.py defines at line 105
interpret_except(exc) == exc.cls = "RuntimeError"

interpret ==
    /\ status = "running"
    /\ kont # <<>> /\ Top.f = "interpret"
    /\ ctl.m \in {"value", "raise"}
    /\ IF ctl.m = "value"
       THEN IF started < Len(statements)
            THEN /\ started' = started + 1
                 /\ ctl' = IF IsNone(statements[started + 1])
                           THEN Value(Nil)
                           ELSE Exec(statements[started + 1])
                 /\ UNCHANGED <<kont, output, status>>
            ELSE /\ kont' = Tail(kont)
                 /\ status' = "returned"
                 /\ UNCHANGED <<ctl, output, started>>
       ELSE IF interpret_except(ctl.exc)
            THEN /\ output' = Append(output, Report(ctl.exc.msg))
                 /\ ctl' = Value(Nil)
                 /\ kont' = Tail(kont)
                 /\ status' = "returned"
                 /\ UNCHANGED started
            ELSE /\ kont' = Tail(kont)
                 /\ status' = "escaped"
                 /\ UNCHANGED <<ctl, output, started>>
    /\ UNCHANGED <<prog, environment, envs, heap, raised>>

\* an exception leaves an activation that has no try statement
Unwind ==
    /\ status = "running"
    /\ ctl.m = "raise"
    /\ kont # <<>> /\ ~HasTry(Top)
    /\ kont' = Tail(kont)
    /\ UNCHANGED <<prog, ctl, environment, envs, heap, output, status, started, raised>>

---------------------------------------------------------------------------
(* Statements *)

\* Interpreter.execute_block: the finally clause's assignment
execute_block_finally_mut(previous, current, raising) ==
    IF raising THEN current ELSE previous

execute_block_finally(previous, current, raising) == previous

execute_block ==
    /\ status = "running"
    /\ IF ctl.m = "block"
       THEN /\ kont' = Push([f |-> "execute_block", statements |-> ctl.statements,
                             i |-> 0, previous |-> environment,
                             environment |-> ctl.environment])
            /\ environment' = ctl.environment
            /\ ctl' = Value(Nil)
       ELSE /\ kont # <<>> /\ Top.f = "execute_block"
            /\ ctl.m \in {"value", "raise"}
            /\ IF ctl.m = "value" /\ Top.i < Len(Top.statements)
               THEN /\ kont' = Replace([Top EXCEPT !.i = @ + 1])
                    /\ ctl' = Exec(Top.statements[Top.i + 1])
                    /\ UNCHANGED environment
               ELSE /\ kont' = Tail(kont)
                    /\ environment' =
                          execute_block_finally(Top.previous, environment,
                                                ctl.m = "raise")
                    /\ UNCHANGED ctl
    /\ UNCHANGED <<prog, envs, heap, output, status, started, raised>>

visit_block_stmt ==
    /\ Executing("block")
    /\ envs' = Append(envs, Environment(environment))
    /\ ctl' = BlockOf(ctl.node.statements, Len(envs) + 1)
    /\ UNCHANGED <<prog, kont, environment, heap, output, status, started, raised>>

visit_expression_stmt ==
    /\ IF Executing("expression")
       THEN /\ kont' = Push([f |-> "visit_expression_stmt"])
            /\ ctl' = Eval(ctl.node.expression)
       ELSE /\ Returning("visit_expression_stmt")
            /\ kont' = Tail(kont)
            /\ ctl' = Value(Nil)
    /\ UNCHANGED <<prog, environment, envs, heap, output, status, started, raised>>

visit_print_stmt ==
    /\ IF Executing("print")
       THEN /\ kont' = Push([f |-> "visit_print_stmt"])
            /\ ctl' = Eval(ctl.node.expression)
            /\ UNCHANGED output
       ELSE /\ Returning("visit_print_stmt")
            /\ kont' = Tail(kont)
            /\ output' = Append(output, stringify(heap, ctl.v))
            /\ ctl' = Value(Nil)
    /\ UNCHANGED <<prog, environment, envs, heap, status, started, raised>>

visit_function_stmt ==
    /\ Executing("function")
    /\ envs' = define(envs, environment, ctl.node.name,
                      Function(ctl.node, environment))
    /\ ctl' = Value(Nil)
    /\ UNCHANGED <<prog, kont, environment, heap, output, status, started, raised>>

visit_if_stmt ==
    /\ IF Executing("if")
       THEN /\ kont' = Push([f |-> "visit_if_stmt", stmt |-> ctl.node,
                             phase |-> "condition"])
            /\ ctl' = Eval(ctl.node.condition)
       ELSE /\ Returning("visit_if_stmt")
            /\ IF Top.phase = "condition"
               THEN IF is_truthy(heap, ctl.v)
                    THEN /\ kont' = Replace([Top EXCEPT !.phase = "branch"])
                         /\ ctl' = Exec(Top.stmt.then_branch)
                    ELSE IF ~IsNone(Top.stmt.else_branch)
                    THEN /\ kont' = Replace([Top EXCEPT !.phase = "branch"])
                         /\ ctl' = Exec(Top.stmt.else_branch)
                    ELSE /\ kont' = Tail(kont)
                         /\ ctl' = Value(Nil)
               ELSE /\ kont' = Tail(kont)
                    /\ ctl' = Value(Nil)
    /\ UNCHANGED <<prog, environment, envs, heap, output, status, started, raised>>

visit_while_stmt ==
    /\ IF Executing("while")
       THEN /\ kont' = Push([f |-> "visit_while_stmt", stmt |-> ctl.node,
                             phase |-> "condition"])
            /\ ctl' = Eval(ctl.node.condition)
       ELSE /\ Returning("visit_while_stmt")
            /\ IF Top.phase = "condition"
               THEN IF is_truthy(heap, ctl.v)
                    THEN /\ kont' = Replace([Top EXCEPT !.phase = "body"])
                         /\ ctl' = Exec(Top.stmt.body)
                    ELSE /\ kont' = Tail(kont)
                         /\ ctl' = Value(Nil)
               ELSE /\ kont' = Replace([Top EXCEPT !.phase = "condition"])
                    /\ ctl' = Eval(Top.stmt.condition)
    /\ UNCHANGED <<prog, environment, envs, heap, output, status, started, raised>>

visit_foreach_stmt_finally_mut(previous_env, current) == current

\* visit_foreach_stmt: the finally clause's assignment
visit_foreach_stmt_finally(previous_env, current) == previous_env

visit_foreach_stmt ==
    /\ IF Executing("foreach")
       THEN /\ kont' = Push([f |-> "visit_foreach_stmt", stmt |-> ctl.node,
                             phase |-> "iterable", iterable |-> Nil, i |-> 0,
                             environment |-> 0, previous_env |-> 0])
            /\ ctl' = Eval(ctl.node.iterable)
            /\ UNCHANGED <<environment, envs, raised>>
       ELSE /\ status = "running"
            /\ kont # <<>> /\ Top.f = "visit_foreach_stmt"
            /\ \/ ctl.m = "value"
               \/ ctl.m = "raise" /\ Top.phase = "body"
            /\ IF ctl.m = "raise"
               THEN /\ environment' =
                          visit_foreach_stmt_finally(Top.previous_env, environment)
                    /\ kont' = Tail(kont)
                    /\ UNCHANGED <<ctl, envs, raised>>
               ELSE IF Top.phase = "iterable" /\ ctl.v.t \notin {"list", "str", "dict"}
               THEN LET exc == RuntimeError(
                           "Can only iterate over lists, strings, and dictionaries.")
                    IN  /\ ctl' = Raise(exc)
                        /\ raised' = Raised(exc)
                        /\ kont' = Tail(kont)
                        /\ UNCHANGED <<environment, envs>>
               ELSE LET \* list(iterable.keys()) is a list of its own, made once; a
                        \* list is iterated as the object it is, read at every step
                        it == IF Top.phase # "iterable" THEN Top.iterable
                              ELSE IF ctl.v.t = "dict"
                              THEN [t |-> "keys", items |-> heap[ctl.v.a].keys]
                              ELSE ctl.v
                        items == CASE it.t = "list" -> heap[it.a].items
                                   [] it.t = "keys" -> it.items
                                   [] it.t = "str" ->
                                        [c \in 1..Len(it.v) |->
                                            Str(SubSeq(it.v, c, c))]
                        restored == IF Top.phase = "body"
                                    THEN visit_foreach_stmt_finally(Top.previous_env,
                                                                    environment)
                                    ELSE environment
                    IN  IF Top.i < Len(items)
                        THEN /\ envs' = define(Append(envs, Environment(restored)),
                                               Len(envs) + 1, Top.stmt.variable,
                                               items[Top.i + 1])
                             /\ environment' = Len(envs) + 1
                             /\ kont' = Replace([Top EXCEPT !.phase = "body",
                                                            !.iterable = it,
                                                            !.i = @ + 1,
                                                            !.environment =
                                                                Len(envs) + 1,
                                                            !.previous_env = restored])
                             /\ ctl' = Exec(Top.stmt.body)
                             /\ UNCHANGED raised
                        ELSE /\ environment' = restored
                             /\ kont' = Tail(kont)
                             /\ ctl' = Value(Nil)
                             /\ UNCHANGED <<envs, raised>>
    /\ UNCHANGED <<prog, heap, output, status, started>>

visit_return_stmt ==
    /\ IF Executing("return")
       THEN IF ~IsNone(ctl.node.value)
            THEN /\ kont' = Push([f |-> "visit_return_stmt"])
                 /\ ctl' = Eval(ctl.node.value)
            ELSE /\ ctl' = Raise(ReturnException(Nil))
                 /\ UNCHANGED kont
       ELSE /\ Returning("visit_return_stmt")
            /\ ctl' = Raise(ReturnException(ctl.v))
            /\ kont' = Tail(kont)
    /\ UNCHANGED <<prog, environment, envs, heap, output, status, started, raised>>

---------------------------------------------------------------------------
(* Expressions *)

visit_literal_expr ==
    /\ Evaluating("literal")
    /\ ctl' = Value(ctl.node.value)
    /\ UNCHANGED <<prog, kont, environment, envs, heap, output, status, started, raised>>

visit_variable_expr ==
    /\ Evaluating("variable")
    /\ LET r == lookup_variable(envs, environment, ctl.node.name)
           exc == RuntimeError("Undefined variable '" \o ctl.node.name \o "'.")
       IN  IF r.ok
           THEN ctl' = Value(r.v) /\ UNCHANGED raised
           ELSE ctl' = Raise(exc) /\ raised' = Raised(exc)
    /\ UNCHANGED <<prog, kont, environment, envs, heap, output, status, started>>

visit_assign_expr ==
    /\ IF Evaluating("assign")
       THEN /\ kont' = Push([f |-> "visit_assign_expr", name |-> ctl.node.name])
            /\ ctl' = Eval(ctl.node.value)
            /\ UNCHANGED envs
       ELSE /\ Returning("visit_assign_expr")
            /\ envs' = assign_variable(envs, environment, Top.name, ctl.v)
            /\ kont' = Tail(kont)
            /\ UNCHANGED ctl
    /\ UNCHANGED <<prog, environment, heap, output, status, started, raised>>

visit_binary_expr ==
    /\ IF Evaluating("binary")
       THEN /\ kont' = Push([f |-> "visit_binary_expr", expr |-> ctl.node,
                             phase |-> "left", left |-> Nil])
            /\ ctl' = Eval(ctl.node.left)
            /\ UNCHANGED <<heap, raised>>
       ELSE /\ Returning("visit_binary_expr")
            /\ IF Top.phase = "left"
               THEN /\ kont' = Replace([Top EXCEPT !.phase = "right", !.left = ctl.v])
                    /\ ctl' = Eval(Top.expr.right)
                    /\ UNCHANGED <<heap, raised>>
               ELSE LET res == binary_op(heap, Top.expr.operator, Top.left, ctl.v)
                        exc == IF res.r = "host" THEN HostError(res.cls, res.msg)
                               ELSE RuntimeError(res.msg)
                    IN  /\ kont' = Tail(kont)
                        /\ CASE res.r = "value" ->
                                  /\ ctl' = Value(res.v)
                                  /\ UNCHANGED <<heap, raised>>
                             [] res.r = "list" ->
                                  /\ heap' = Append(heap, [k |-> "list",
                                                           items |-> res.items])
                                  /\ ctl' = Value(ListRef(Len(heap) + 1))
                                  /\ UNCHANGED raised
                             [] res.r \in {"error", "host"} ->
                                  /\ ctl' = Raise(exc)
                                  /\ raised' = Raised(exc)
                                  /\ UNCHANGED heap
    /\ UNCHANGED <<prog, environment, envs, output, status, started>>

short_circuits_mut(h, operator, left) ==
    IF operator = "OR" THEN ~is_truthy(h, left) ELSE is_truthy(h, left)

\* whether visit_logical_expr returns the left value and leaves the right
\* operand unevaluated (interpreter.py 424-429)
short_circuits(h, operator, left) ==
    IF operator = "OR" THEN is_truthy(h, left) ELSE ~is_truthy(h, left)

visit_logical_expr ==
    /\ IF Evaluating("logical")
       THEN /\ kont' = Push([f |-> "visit_logical_expr", expr |-> ctl.node,
                             phase |-> "left"])
            /\ ctl' = Eval(ctl.node.left)
       ELSE /\ Returning("visit_logical_expr")
            /\ IF Top.phase = "left"
                  /\ ~short_circuits(heap, Top.expr.operator, ctl.v)
               THEN /\ kont' = Replace([Top EXCEPT !.phase = "right"])
                    /\ ctl' = Eval(Top.expr.right)
               ELSE /\ kont' = Tail(kont)
                    /\ ctl' = Value(ctl.v)
    /\ UNCHANGED <<prog, environment, envs, heap, output, status, started, raised>>

visit_list_expr ==
    /\ IF Evaluating("list")
       THEN IF Len(ctl.node.elements) = 0
            THEN /\ heap' = Append(heap, [k |-> "list", items |-> <<>>])
                 /\ ctl' = Value(ListRef(Len(heap) + 1))
                 /\ UNCHANGED kont
            ELSE /\ kont' = Push([f |-> "visit_list_expr", expr |-> ctl.node,
                                  elements |-> <<>>])
                 /\ ctl' = Eval(ctl.node.elements[1])
                 /\ UNCHANGED heap
       ELSE /\ Returning("visit_list_expr")
            /\ LET elements == Append(Top.elements, ctl.v)
               IN  IF Len(elements) < Len(Top.expr.elements)
                   THEN /\ kont' = Replace([Top EXCEPT !.elements = elements])
                        /\ ctl' = Eval(Top.expr.elements[Len(elements) + 1])
                        /\ UNCHANGED heap
                   ELSE /\ heap' = Append(heap, [k |-> "list", items |-> elements])
                        /\ ctl' = Value(ListRef(Len(heap) + 1))
                        /\ kont' = Tail(kont)
    /\ UNCHANGED <<prog, environment, envs, output, status, started, raised>>

---------------------------------------------------------------------------
(* Lists and dictionaries of the host *)

\* Python's len() of a list, a dict or a str
len(h, value) ==
    CASE value.t = "str" -> Len(value.v)
      [] value.t = "list" -> Len(h[value.a].items)
      [] value.t = "dict" -> Len(h[value.a].keys)

\* whether Python can hash the value: list and dict objects are unhashable
Hashable(value) == value.t \notin {"list", "dict"}

\* equality of two dictionary keys: numbers (bools included) by value,
\* strings by content, objects by identity
KeyEq(a, b) ==
    IF IsNumber(a) /\ IsNumber(b)
    THEN NumVal(a) * DenVal(b) = NumVal(b) * DenVal(a)
    ELSE /\ a.t = b.t
         /\ CASE a.t = "nil" -> TRUE
              [] a.t = "str" -> a.v = b.v
              [] a.t \in {"instance", "class"} -> a.a = b.a
              [] a.t = "builtin" -> a.fn = b.fn /\ a.obj = b.obj
              [] a.t = "fun" -> /\ a.declaration.name = b.declaration.name
                                /\ a.closure = b.closure
              [] OTHER -> FALSE

\* the position of key in a dict, 0 when it is not a key
RECURSIVE KeyIndex(_, _, _)
KeyIndex(keys, key, i) ==
    IF i > Len(keys) THEN 0
    ELSE IF KeyEq(keys[i], key) THEN i
    ELSE KeyIndex(keys, key, i + 1)

EmptyDict == [k |-> "dict", keys |-> <<>>, vals |-> <<>>]

\* d[key] = value on a dict of the host: insertion order is kept, and an
\* existing key keeps its place and its first spelling
dict_setitem(d, key, value) ==
    LET i == KeyIndex(d.keys, key, 1)
    IN  IF i # 0 THEN [d EXCEPT !.vals[i] = value]
        ELSE [d EXCEPT !.keys = Append(@, key), !.vals = Append(@, value)]

list_setitem_mut(h, a, index, value) == h

\* obj[index] = value on the list at address a (index counted from 0)
list_setitem(h, a, index, value) == [h EXCEPT ![a].items[index + 1] = value]

visit_dictionary_expr ==
    /\ IF Evaluating("dictionary")
       THEN IF Len(ctl.node.keys) = 0
            THEN /\ heap' = Append(heap, EmptyDict)
                 /\ ctl' = Value(DictRef(Len(heap) + 1))
                 /\ UNCHANGED <<kont, raised>>
            ELSE /\ kont' = Push([f |-> "visit_dictionary_expr", expr |-> ctl.node,
                                  i |-> 1, phase |-> "key", key |-> Nil,
                                  result |-> EmptyDict])
                 /\ ctl' = Eval(ctl.node.keys[1])
                 /\ UNCHANGED <<heap, raised>>
       ELSE /\ Returning("visit_dictionary_expr")
            /\ IF Top.phase = "key"
               THEN /\ kont' = Replace([Top EXCEPT !.phase = "value", !.key = ctl.v])
                    /\ ctl' = Eval(Top.expr.values[Top.i])
                    /\ UNCHANGED <<heap, raised>>
               ELSE LET exc == RuntimeError(
                          "Dictionary keys must be immutable (strings, numbers, booleans).")
                        result == dict_setitem(Top.result, Top.key, ctl.v)
                    IN  IF Top.key.t \in {"list", "dict"}
                        THEN /\ ctl' = Raise(exc)
                             /\ raised' = Raised(exc)
                             /\ kont' = Tail(kont)
                             /\ UNCHANGED heap
                        ELSE IF Top.i < Len(Top.expr.keys)
                        THEN /\ kont' = Replace([Top EXCEPT !.phase = "key",
                                                             !.i = @ + 1,
                                                             !.result = result])
                             /\ ctl' = Eval(Top.expr.keys[Top.i + 1])
                             /\ UNCHANGED <<heap, raised>>
                        ELSE /\ heap' = Append(heap, result)
                             /\ ctl' = Value(DictRef(Len(heap) + 1))
                             /\ kont' = Tail(kont)
                             /\ UNCHANGED raised
    /\ UNCHANGED <<prog, environment, envs, output, status, started>>

\* the value or the exception of visit_index_expr once obj and index are
\* evaluated
index_result(h, obj, index) ==
    CASE obj.t = "list" ->
           IF ~IsInt(index)
           THEN Raise(RuntimeError("List indices must be integers."))
           ELSE IF NumVal(index) < 0 \/ NumVal(index) >= Len(h[obj.a].items)
           THEN Raise(RuntimeError("List index out of range: "
                                   \o py_str(h, index)))
           ELSE Value(h[obj.a].items[NumVal(index) + 1])
      [] obj.t = "dict" ->
           IF ~Hashable(index)
           THEN Raise(HostError("TypeError", "unhashable type: '"
                                \o TypeName(index) \o "'"))
           ELSE IF KeyIndex(h[obj.a].keys, index, 1) = 0
           THEN Raise(RuntimeError("Key not found in dictionary: "
                                   \o py_str(h, index)))
           ELSE Value(h[obj.a].vals[KeyIndex(h[obj.a].keys, index, 1)])
      [] obj.t = "str" ->
           IF ~IsInt(index)
           THEN Raise(RuntimeError("String indices must be integers."))
           ELSE IF NumVal(index) < 0 \/ NumVal(index) >= Len(obj.v)
           THEN Raise(RuntimeError("String index out of range: "
                                   \o py_str(h, index)))
           ELSE Value(Str(SubSeq(obj.v, NumVal(index) + 1, NumVal(index) + 1)))
      [] OTHER ->
           Raise(RuntimeError("Cannot index into type " \o TypeName(obj)))

visit_index_expr ==
    /\ IF Evaluating("index")
       THEN /\ kont' = Push([f |-> "visit_index_expr", expr |-> ctl.node,
                             phase |-> "object", obj |-> Nil])
            /\ ctl' = Eval(ctl.node.object)
            /\ UNCHANGED raised
       ELSE /\ Returning("visit_index_expr")
            /\ IF Top.phase = "object"
               THEN /\ kont' = Replace([Top EXCEPT !.phase = "index", !.obj = ctl.v])
                    /\ ctl' = Eval(Top.expr.index)
                    /\ UNCHANGED raised
               ELSE LET res == index_result(heap, Top.obj, ctl.v)
                    IN  /\ kont' = Tail(kont)
                        /\ ctl' = res
                        /\ raised' = IF res.m = "raise" THEN Raised(res.exc)
                                      ELSE raised
    /\ UNCHANGED <<prog, environment, envs, heap, output, status, started>>

\* the exception visit_index_assign_expr raises, NoException when it stores
NoException == [cls |-> "", msg |-> "", value |-> Nil]

index_assign_error(h, obj, index) ==
    CASE obj.t = "list" ->
           IF ~IsInt(index)
           THEN RuntimeError("List indices must be integers.")
           ELSE IF NumVal(index) < 0 \/ NumVal(index) >= Len(h[obj.a].items)
           THEN RuntimeError("List index out of range: " \o py_str(h, index))
           ELSE NoException
      [] obj.t = "dict" ->
           IF ~Hashable(index)
           THEN HostError("TypeError", "unhashable type: '" \o TypeName(index)
                                       \o "'")
           ELSE NoException
      [] OTHER ->
           RuntimeError("Cannot assign to index of type " \o TypeName(obj))

visit_index_assign_expr ==
    /\ IF Evaluating("index_assign")
       THEN /\ kont' = Push([f |-> "visit_index_assign_expr", expr |-> ctl.node,
                             phase |-> "object", obj |-> Nil, index |-> Nil])
            /\ ctl' = Eval(ctl.node.object)
            /\ UNCHANGED <<heap, raised>>
       ELSE /\ Returning("visit_index_assign_expr")
            /\ CASE Top.phase = "object" ->
                      /\ kont' = Replace([Top EXCEPT !.phase = "index",
                                                      !.obj = ctl.v])
                      /\ ctl' = Eval(Top.expr.index)
                      /\ UNCHANGED <<heap, raised>>
                 [] Top.phase = "index" ->
                      /\ kont' = Replace([Top EXCEPT !.phase = "value",
                                                      !.index = ctl.v])
                      /\ ctl' = Eval(Top.expr.value)
                      /\ UNCHANGED <<heap, raised>>
                 [] Top.phase = "value" ->
                      LET obj == Top.obj
                          index == Top.index
                          exc == index_assign_error(heap, obj, index)
                      IN  /\ kont' = Tail(kont)
                          /\ IF exc # NoException
                             THEN /\ ctl' = Raise(exc)
                                  /\ raised' = Raised(exc)
                                  /\ UNCHANGED heap
                             ELSE /\ heap' =
                                       IF obj.t = "list"
                                       THEN list_setitem(heap, obj.a,
                                                         NumVal(index), ctl.v)
                                       ELSE [heap EXCEPT ![obj.a] =
                                                dict_setitem(@, index, ctl.v)]
                                  /\ UNCHANGED <<ctl, raised>>
    /\ UNCHANGED <<prog, environment, envs, output, status, started>>

\* callable(getattr(callee, "call", None))
HasCall_mut(value) == TRUE

\* callable(getattr(callee, "call", None)): Function, BuiltinFunction and
\* LoxClass define call
HasCall(value) == value.t \in {"fun", "builtin", "class"}

\* the classes that define arity(): Function and BuiltinFunction; LoxClass
\* (runtime.py 26-51) defines none
HasArity(value) == value.t \in {"fun", "builtin"}

\* Function.arity and BuiltinFunction.arity
arity(callee) ==
    IF callee.t = "fun" THEN Len(callee.declaration.params) ELSE callee.arity_count

\* visit_call_expr: the arity check before the call
arity_check_mut(callee, arguments) == TRUE

arity_check(callee, arguments) == Len(arguments) = arity(callee)

visit_call_expr ==
    /\ IF Evaluating("call")
       THEN /\ kont' = Push([f |-> "visit_call_expr", expr |-> ctl.node,
                             phase |-> "callee", callee |-> Nil,
                             arguments |-> <<>>])
            /\ ctl' = Eval(ctl.node.callee)
            /\ UNCHANGED raised
       ELSE /\ Returning("visit_call_expr")
            /\ LET callee == IF Top.phase = "callee" THEN ctl.v ELSE Top.callee
                   arguments == IF Top.phase = "callee" THEN <<>>
                                ELSE Append(Top.arguments, ctl.v)
                   notCallable == RuntimeError("Can only call functions and classes: "
                                               \o TypeName(callee))
                   noArity == HostError("AttributeError",
                                 "'LoxClass' object has no attribute 'arity'")
                   mismatch == RuntimeError("Expected " \o IntStr(arity(callee))
                                  \o " arguments but got "
                                  \o IntStr(Len(arguments)) \o ".")
               IN  IF Len(arguments) < Len(Top.expr.arguments)
                   THEN /\ kont' = Replace([Top EXCEPT !.phase = "arguments",
                                                       !.callee = callee,
                                                       !.arguments = arguments])
                        /\ ctl' = Eval(Top.expr.arguments[Len(arguments) + 1])
                        /\ UNCHANGED raised
                   ELSE /\ kont' = Tail(kont)
                        /\ IF ~HasCall(callee)
                           THEN ctl' = Raise(notCallable)
                                /\ raised' = Raised(notCallable)
                           ELSE IF ~HasArity(callee)
                           THEN ctl' = Raise(noArity) /\ raised' = Raised(noArity)
                           ELSE IF ~arity_check(callee, arguments)
                           THEN ctl' = Raise(mismatch) /\ raised' = Raised(mismatch)
                           ELSE ctl' = CallOf(callee, arguments) /\ UNCHANGED raised
    /\ UNCHANGED <<prog, environment, envs, heap, output, status, started>>

---------------------------------------------------------------------------
(* Callables *)

\* Function.call binds params[i] to arguments[i] for i in range(len(params));
\* arguments[i] raises IndexError once i reaches len(arguments)
RECURSIVE BindParams_mut(_, _, _, _, _)
BindParams_mut(es, e, params, arguments, i) ==
    IF i > Len(params) \/ i > Len(arguments) THEN es
    ELSE BindParams_mut(define(es, es[e].enclosing, params[i], arguments[i]), e,
                        params, arguments, i + 1)

RECURSIVE BindParams(_, _, _, _, _)
BindParams(es, e, params, arguments, i) ==
    IF i > Len(params) \/ i > Len(arguments) THEN es
    ELSE BindParams(define(es, e, params[i], arguments[i]), e, params, arguments,
                    i + 1)

\* the parent of the environment of a call
call_parent_mut(fn, current) == current

call_parent(fn, current) == fn.closure

\* the value Function.call returns from its except clause
Function_call_return_mut(exc) == Nil

Function_call_return(exc) == exc.value

\* the except clause of Function.call
Function_call_except_mut(exc) == TRUE

Function_call_except(exc) == exc.cls = "ReturnException"

Function_call ==
    /\ status = "running"
    /\ IF ctl.m = "call"
       THEN /\ ctl.callee.t = "fun"
            /\ LET fn == ctl.callee
                   e == Len(envs) + 1
                   exc == HostError("IndexError", "list index out of range")
               IN  /\ envs' = BindParams(
                                 Append(envs,
                                        Environment(call_parent(fn, environment))),
                                 e, fn.declaration.params, ctl.arguments, 1)
                   /\ IF Len(ctl.arguments) < Len(fn.declaration.params)
                      THEN /\ ctl' = Raise(exc)
                           /\ raised' = Raised(exc)
                           /\ UNCHANGED kont
                      ELSE /\ kont' = Push([f |-> "Function.call"])
                           /\ ctl' = BlockOf(fn.declaration.body, e)
                           /\ UNCHANGED raised
       ELSE /\ kont # <<>> /\ Top.f = "Function.call"
            /\ ctl.m \in {"value", "raise"}
            /\ kont' = Tail(kont)
            /\ ctl' = IF ctl.m = "value" THEN Value(Nil)
                      ELSE IF Function_call_except(ctl.exc)
                      THEN Value(Function_call_return(ctl.exc))
                      ELSE ctl
            /\ UNCHANGED <<envs, raised>>
    /\ UNCHANGED <<prog, environment, heap, output, status, started>>

\* BuiltinFunction.call: the functions of define_globals (interpreter.py
\* 121-145) and the two list pseudo-methods of visit_get_expr (664, 666)
BuiltinFunction_call ==
    /\ status = "running"
    /\ ctl.m = "call"
    /\ ctl.callee.t = "builtin"
    /\ LET args == ctl.arguments
           fn == ctl.callee.fn
           isList == Len(args) >= 1 /\ args[1].t = "list"
           msg == CASE fn = "append" -> "append expects a list followed by a value"
                    [] fn = "pop" -> "pop expects a non-empty list"
                    [] fn = "length" -> "length expects a list, dictionary, or string"
                    [] OTHER -> ""
           exc == RuntimeError(msg)
           ok == CASE fn = "append" -> Len(args) = 2 /\ isList
                   [] fn = "pop" -> Len(args) = 1 /\ isList
                                    /\ Len(heap[args[1].a].items) > 0
                   [] fn = "length" -> Len(args) = 1
                                       /\ args[1].t \in {"list", "dict", "str"}
                   [] OTHER -> TRUE
       IN  IF ~ok
           THEN /\ ctl' = Raise(exc)
                /\ raised' = Raised(exc)
                /\ UNCHANGED heap
           ELSE /\ UNCHANGED raised
                /\ CASE fn = "append" ->
                          /\ heap' = [heap EXCEPT ![args[1].a].items =
                                                     Append(@, args[2])]
                          /\ ctl' = Value(args[1])
                     [] fn = "pop" ->
                          LET items == heap[args[1].a].items
                          IN  /\ heap' = [heap EXCEPT ![args[1].a].items =
                                                         SubSeq(items, 1,
                                                                Len(items) - 1)]
                              /\ ctl' = Value(items[Len(items)])
                     [] fn = "length" ->
                          /\ ctl' = Value(Num(len(heap, args[1])))
                          /\ UNCHANGED heap
                     [] fn = "list.append" ->
                          /\ heap' = [heap EXCEPT ![ctl.callee.obj].items =
                                                     Append(@, args[1])]
                          /\ ctl' = Value(Nil)
                     [] fn = "list.pop" ->
                          LET items == heap[ctl.callee.obj].items
                          IN  IF Len(items) > 0
                              THEN /\ heap' = [heap EXCEPT ![ctl.callee.obj].items =
                                                   SubSeq(items, 1, Len(items) - 1)]
                                   /\ ctl' = Value(items[Len(items)])
                              ELSE /\ ctl' = Value(Nil)
                                   /\ UNCHANGED heap
    /\ UNCHANGED <<prog, kont, environment, envs, output, status, started>>

---------------------------------------------------------------------------
(* The object model (src/parser/runtime.py) *)

\* runtime.py imports nothing: the RuntimeError it raises is the host's
\* built-in class, not the class RuntimeError that interpreter.py defines
runtime_RuntimeError(msg) == HostError("builtins.RuntimeError", msg)

LoxClass(name, superclass, methods) ==
    [k |-> "class", name |-> name, superclass |-> superclass, methods |-> methods]

LoxInstance(klass) == [k |-> "instance", klass |-> klass, fields |-> EmptyMap]

\* LoxClass.find_method on the class object at address c
RECURSIVE find_method(_, _, _)
find_method(h, c, name) ==
    IF name \in DOMAIN h[c].methods THEN Found(h[c].methods[name])
    ELSE IF h[c].superclass # 0 THEN find_method(h, h[c].superclass, name)
    ELSE NotFound

bind_envs_mut(es, fn, instance) ==
    define(Append(es, Environment(fn.closure)), fn.closure, "this", instance)

\* Function.bind: the environments after it, and the Function it returns
bind_envs(es, fn, instance) ==
    define(Append(es, Environment(fn.closure)), Len(es) + 1, "this", instance)

bind(es, fn, instance) == Function(fn.declaration, Len(es) + 1)

LoxInstance_get_mut(h, a, name) ==
    LET method == find_method(h, h[a].klass, name)
    IN  IF method.ok THEN [r |-> "method", v |-> method.v]
        ELSE IF name \in DOMAIN h[a].fields
        THEN [r |-> "field", v |-> h[a].fields[name]]
        ELSE [r |-> "raise", v |-> Nil]

\* LoxInstance.get on the instance object at address a
LoxInstance_get(h, a, name) ==
    IF name \in DOMAIN h[a].fields
    THEN [r |-> "field", v |-> h[a].fields[name]]
    ELSE LET method == find_method(h, h[a].klass, name)
         IN  IF method.ok THEN [r |-> "method", v |-> method.v]
             ELSE [r |-> "raise", v |-> Nil]

\* LoxInstance.set
LoxInstance_set(h, a, name, value) ==
    [h EXCEPT ![a].fields = Put(@, name, value)]

LoxClass_call_return_mut(instance, returned) == returned

\* what LoxClass.call returns after the initializer has returned
LoxClass_call_return(instance, returned) == instance

LoxClass_call ==
    /\ status = "running"
    /\ IF ctl.m = "call"
       THEN /\ ctl.callee.t = "class"
            /\ LET a == Len(heap) + 1
                   instance == InstanceRef(a)
                   initializer == find_method(heap, ctl.callee.a, "init")
               IN  /\ heap' = Append(heap, LoxInstance(ctl.callee.a))
                   /\ IF initializer.ok
                      THEN /\ envs' = bind_envs(envs, initializer.v, instance)
                           /\ kont' = Push([f |-> "LoxClass.call",
                                            instance |-> instance])
                           /\ ctl' = CallOf(bind(envs, initializer.v, instance),
                                            ctl.arguments)
                      ELSE /\ ctl' = Value(instance)
                           /\ UNCHANGED <<kont, envs>>
       ELSE /\ Returning("LoxClass.call")
            /\ kont' = Tail(kont)
            /\ ctl' = Value(LoxClass_call_return(Top.instance, ctl.v))
            /\ UNCHANGED <<heap, envs>>
    /\ UNCHANGED <<prog, environment, output, status, started, raised>>

\* the methods dictionary visit_class_stmt collects
RECURSIVE CollectMethods(_, _, _)
CollectMethods(methods, e, i) ==
    IF i > Len(methods) THEN EmptyMap
    ELSE Put(CollectMethods(methods, e, i + 1), methods[i].name,
             Function(methods[i], e))

class_predefine_mut(es, e, name) == es

\* visit_class_stmt binds the name of the class to None before it evaluates
\* the superclass (interpreter.py 607)
class_predefine(es, e, name) == define(es, e, name, Nil)

visit_class_stmt ==
    /\ \/ Executing("class")
       \/ Returning("visit_class_stmt")
    /\ LET stmt == IF ctl.m = "exec" THEN ctl.node ELSE Top.stmt
           es == IF ctl.m = "exec"
                 THEN class_predefine(envs, environment, stmt.name)
                 ELSE envs
           exc == RuntimeError("Superclass must be a class.")
           k == IF ctl.m = "exec" THEN kont ELSE Tail(kont)
       IN  IF ctl.m = "exec" /\ ~IsNone(stmt.superclass)
           THEN /\ envs' = es
                /\ kont' = Push([f |-> "visit_class_stmt", stmt |-> stmt])
                /\ ctl' = Eval(stmt.superclass)
                /\ UNCHANGED <<heap, raised>>
           ELSE IF ctl.m = "value" /\ ctl.v.t # "class"
           THEN /\ ctl' = Raise(exc)
                /\ raised' = Raised(exc)
                /\ kont' = k
                /\ UNCHANGED <<heap, envs>>
           ELSE /\ heap' = Append(heap,
                              LoxClass(stmt.name,
                                       IF ctl.m = "value" THEN ctl.v.a ELSE 0,
                                       CollectMethods(stmt.methods, environment, 1)))
                /\ envs' = define(es, environment, stmt.name,
                                  ClassRef(Len(heap) + 1))
                /\ kont' = k
                /\ ctl' = Value(Nil)
                /\ UNCHANGED raised
    /\ UNCHANGED <<prog, environment, output, status, started>>

\* hasattr(klass, 'call')
is_class_check(klass) == HasCall(klass)

visit_new_expr ==
    /\ \/ Evaluating("new")
       \/ Returning("visit_new_expr")
    /\ LET expr == IF ctl.m = "eval" THEN ctl.node ELSE Top.expr
           got == Environment_get(envs, environment, expr.class_name)
           klass == IF ctl.m = "eval" THEN got.v ELSE Top.klass
           arguments == IF ctl.m = "eval" THEN <<>>
                        ELSE Append(Top.arguments, ctl.v)
           k == IF ctl.m = "eval" THEN kont ELSE Tail(kont)
           undefined == RuntimeError("Undefined class '" \o expr.class_name \o "'.")
           notClass == RuntimeError("'" \o expr.class_name \o "' is not a class.")
       IN  IF ctl.m = "eval" /\ ~got.ok
           THEN /\ ctl' = Raise(undefined)
                /\ raised' = Raised(undefined)
                /\ UNCHANGED kont
           ELSE IF Len(arguments) < Len(expr.arguments)
           THEN /\ kont' = <<[f |-> "visit_new_expr", expr |-> expr,
                              klass |-> klass, arguments |-> arguments]>> \o k
                /\ ctl' = Eval(expr.arguments[Len(arguments) + 1])
                /\ UNCHANGED raised
           ELSE IF ~is_class_check(klass)
           THEN /\ ctl' = Raise(notClass)
                /\ raised' = Raised(notClass)
                /\ kont' = k
           ELSE /\ ctl' = CallOf(klass, arguments)
                /\ kont' = k
                /\ UNCHANGED raised
    /\ UNCHANGED <<prog, environment, envs, heap, output, status, started>>

\* the definition of visit_get_expr that is in force (the later one)
visit_get_expr ==
    /\ IF Evaluating("get")
       THEN /\ kont' = Push([f |-> "visit_get_expr", expr |-> ctl.node])
            /\ ctl' = Eval(ctl.node.object)
            /\ UNCHANGED <<envs, raised>>
       ELSE /\ Returning("visit_get_expr")
            /\ kont' = Tail(kont)
            /\ LET obj == ctl.v
                   name == Top.expr.name
                   got == LoxInstance_get(heap, obj.a, name)
                   undefined == runtime_RuntimeError("Undefined property '" \o name
                                                     \o "'.")
                   noSuch == RuntimeError("No such property '" \o name \o "' on "
                                          \o TypeName(obj) \o ".")
               IN  IF obj.t = "list" /\ name = "append"
                   THEN /\ ctl' = Value([BuiltinFunction(1, "list.append")
                                            EXCEPT !.obj = obj.a])
                        /\ UNCHANGED <<envs, raised>>
                   ELSE IF obj.t = "list" /\ name = "pop"
                   THEN /\ ctl' = Value([BuiltinFunction(0, "list.pop")
                                            EXCEPT !.obj = obj.a])
                        /\ UNCHANGED <<envs, raised>>
                   ELSE IF obj.t \in {"list", "dict", "str"} /\ name = "length"
                   THEN /\ ctl' = Value(Num(len(heap, obj)))
                        /\ UNCHANGED <<envs, raised>>
                   ELSE IF obj.t = "instance"
                   THEN CASE got.r = "field" ->
                               /\ ctl' = Value(got.v)
                               /\ UNCHANGED <<envs, raised>>
                          [] got.r = "method" ->
                               /\ envs' = bind_envs(envs, got.v, obj)
                               /\ ctl' = Value(bind(envs, got.v, obj))
                               /\ UNCHANGED raised
                          [] got.r = "raise" ->
                               /\ ctl' = Raise(undefined)
                               /\ raised' = Raised(undefined)
                               /\ UNCHANGED envs
                   ELSE /\ ctl' = Raise(noSuch)
                        /\ raised' = Raised(noSuch)
                        /\ UNCHANGED envs
    /\ UNCHANGED <<prog, environment, heap, output, status, started>>

visit_set_expr ==
    /\ IF Evaluating("set")
       THEN /\ kont' = Push([f |-> "visit_set_expr", expr |-> ctl.node,
                             phase |-> "object", obj |-> Nil])
            /\ ctl' = Eval(ctl.node.object)
            /\ UNCHANGED <<heap, raised>>
       ELSE /\ Returning("visit_set_expr")
            /\ IF Top.phase = "object"
               THEN /\ kont' = Replace([Top EXCEPT !.phase = "value", !.obj = ctl.v])
                    /\ ctl' = Eval(Top.expr.value)
                    /\ UNCHANGED <<heap, raised>>
               ELSE LET exc == RuntimeError("Only instances have fields.")
                    IN  /\ kont' = Tail(kont)
                        /\ IF Top.obj.t = "instance"
                           THEN /\ heap' = LoxInstance_set(heap, Top.obj.a,
                                                           Top.expr.name, ctl.v)
                                /\ UNCHANGED <<ctl, raised>>
                           ELSE /\ ctl' = Raise(exc)
                                /\ raised' = Raised(exc)
                                /\ UNCHANGED heap
    /\ UNCHANGED <<prog, environment, envs, output, status, started>>

\* the definition of visit_this_expr that is in force (the later one)
visit_this_expr ==
    /\ Evaluating("this")
    /\ LET r == lookup_variable(envs, environment, ctl.node.keyword)
           exc == RuntimeError("Undefined variable '" \o ctl.node.keyword \o "'.")
       IN  IF r.ok
           THEN ctl' = Value(r.v) /\ UNCHANGED raised
           ELSE ctl' = Raise(exc) /\ raised' = Raised(exc)
    /\ UNCHANGED <<prog, kont, environment, envs, heap, output, status, started>>

\* the attributes Interpreter.__init__ sets (interpreter.py 114-119)
InterpreterAttributes == {"globals", "environment"}

\* visit_super_expr reads self.locals before anything else
visit_super_expr ==
    /\ Evaluating("super")
    /\ "locals" \notin InterpreterAttributes
    /\ LET exc == HostError("AttributeError",
                            "'Interpreter' object has no attribute 'locals'")
       IN  /\ ctl' = Raise(exc)
           /\ raised' = Raised(exc)
    /\ UNCHANGED <<prog, kont, environment, envs, heap, output, status, started>>

---------------------------------------------------------------------------

Next ==
    \/ interpret
    \/ Unwind
    \/ execute_block
    \/ visit_block_stmt
    \/ visit_expression_stmt
    \/ visit_print_stmt
    \/ visit_literal_expr
    \/ visit_variable_expr
    \/ visit_assign_expr
    \/ visit_function_stmt
    \/ visit_if_stmt
    \/ visit_while_stmt
    \/ visit_foreach_stmt
    \/ visit_return_stmt
    \/ visit_binary_expr
    \/ visit_logical_expr
    \/ visit_list_expr
    \/ visit_dictionary_expr
    \/ visit_index_expr
    \/ visit_index_assign_expr
    \/ visit_call_expr
    \/ Function_call
    \/ BuiltinFunction_call
    \/ LoxClass_call
    \/ visit_class_stmt
    \/ visit_new_expr
    \/ visit_get_expr
    \/ visit_set_expr
    \/ visit_this_expr
    \/ visit_super_expr

Spec == Init /\ [][Next]_vars

---------------------------------------------------------------------------
(* Properties *)

IsReturn(c) == c.m = "raise" /\ c.exc.cls = "ReturnException"
IsErrorRaise(c) == c.m = "raise" /\ IsError(c.exc)

\* the environment of the innermost block or for-each body still executing
RECURSIVE InnermostBlockEnv(_)
InnermostBlockEnv(k) ==
    IF k = <<>> THEN Globals
    ELSE IF Head(k).f = "execute_block" THEN Head(k).environment
    ELSE IF Head(k).f = "visit_foreach_stmt" /\ Head(k).phase = "body"
    THEN Head(k).environment
    ELSE InnermostBlockEnv(Tail(k))

RECURSIVE CountFrames(_, _)
CountFrames(k, f) ==
    IF k = <<>> THEN 0
    ELSE (IF Head(k).f = f THEN 1 ELSE 0) + CountFrames(Tail(k), f)

Printed(line) == \E i \in DOMAIN output : output[i] = line

\* C1: execute_block always restores the current-environment register: in
\* every state the register is the environment of the innermost block still
\* executing (the global environment when there is none), so every exit of a
\* block - normal, by a runtime error, or by a return - leaves the register
\* at the environment that was current when the block was entered.
C1_BlockRestoresEnvironment ==
    environment = InnermostBlockEnv(kont)

\* an error propagates out of a nested block statement, the inner block has
\* been left, and the register is the enclosing block's environment again
C1_Witness ==
    /\ IsErrorRaise(ctl)
    /\ kont # <<>> /\ Top.f = "execute_block"
    /\ Top.i > 0 /\ Top.statements[Top.i].k = "block"
    /\ environment = Top.environment
    /\ environment # Top.previous

\* the classes of the taxonomy's errors: every `raise RuntimeError(...)` of
\* interpreter.py and of runtime.py
TaxonomyClasses == {"RuntimeError", "builtins.RuntimeError"}

\* C2: when a runtime error is raised while executing top-level statement i,
\* the error is reported once, no later top-level statement is started, and
\* nothing is printed after the error but the report.
C2_ErrorHaltsProgram ==
    (raised # <<>> /\ raised[1].cls \in TaxonomyClasses) =>
        /\ started = raised[1].at
        /\ Len(raised) = 1
        /\ status # "running" =>
              /\ status = "returned"
              /\ output = SubSeq(output, 1, raised[1].out)
                          \o <<Report(raised[1].msg)>>

\* C3: every runtime error of the taxonomy, UndefinedProperty of
\* LoxInstance.get included, is caught by interpret and reported, and
\* interpret returns normally.
C3_ErrorsCaughtByInterpret ==
    (status # "running" /\ raised # <<>>
        /\ raised[Len(raised)].cls \in TaxonomyClasses) =>
        /\ status = "returned"
        /\ output # <<>>
        /\ output[Len(output)] = Report(raised[Len(raised)].msg)

\* one step of the unwinding of a return signal
ReturnUnwindStep ==
    (status = "running" /\ IsReturn(ctl)) =>
        /\ kont' = Tail(kont)
        /\ output' = output /\ envs' = envs /\ heap' = heap
        /\ started' = started
        /\ ctl' = IF Top.f = "Function.call" THEN Value(ctl.exc.value) ELSE ctl

\* C4: a return inside a function body, at any nesting depth of block, if,
\* while and for-each, unwinds exactly to the nearest enclosing
\* Function.call: every step of the unwinding leaves one activation and
\* executes nothing, the first Function.call reached ends it with the
\* returned value (nil for a bare return), the statements after the return
\* never run, and the pending outer call goes on.
C4_ReturnUnwindsToNearestCall ==
    /\ [][ReturnUnwindStep]_vars
    /\ [](prog.name \in ReturnKinds \cup {"ReturnBare"} =>
            /\ ~Printed("after")
            /\ status # "running" =>
                  /\ status = "returned"
                  /\ output = IF prog.name = "ReturnBare"
                              THEN <<"nil", "end">>
                              ELSE <<"h", "8", "end">>)

\* a return signal is passing a loop or an if of g while h's call is pending
C4_Witness ==
    /\ IsReturn(ctl)
    /\ kont # <<>>
    /\ Top.f \in {"visit_if_stmt", "visit_while_stmt", "visit_foreach_stmt"}
    /\ CountFrames(kont, "Function.call") = 2
    /\ CountFrames(kont, "execute_block") >= 2

\* C5: the return path and the error path never capture each other:
\* interpret neither catches nor reports a return signal, and Function.call
\* passes a runtime error raised in its body on unchanged.
C5_ReturnAndErrorPathsDisjoint ==
    [][ /\ (status = "running" /\ IsReturn(ctl) /\ Top.f = "interpret") =>
              (output' = output /\ status' = "escaped" /\ ctl' = ctl)
        /\ (status = "running" /\ IsErrorRaise(ctl) /\ Top.f = "Function.call") =>
              (ctl' = ctl /\ kont' = Tail(kont) /\ output' = output)
      ]_vars

\* a runtime error raised in a function body reaches the call boundary
C5_Witness ==
    /\ IsErrorRaise(ctl)
    /\ kont # <<>> /\ Top.f = "Function.call"

\* C6: a call expression on a user function with the wrong number of
\* arguments fails with the arity error before anything is bound: no
\* environment is created and no statement of the body runs.
C6_ArityMismatchBeforeBinding ==
    (prog.name = "Arity" /\ prog.n # 2) =>
        /\ Len(envs) = 1
        /\ ~Printed("body")
        /\ "g" \notin DOMAIN envs[Globals].values
        /\ status # "running" =>
              /\ status = "returned"
              /\ output = <<Report("Expected 2 arguments but got "
                                   \o IntStr(prog.n) \o ".")>>

C6_Witness ==
    /\ prog.name = "Arity" /\ prog.n # 2
    /\ status = "returned"
    /\ raised # <<>>

\* C7: constructing an instance with an argument count different from the
\* parameter count of init fails with the arity error before any parameter
\* is bound and before init's body runs, for `new C(args)` and for a call on
\* the class value alike.
C7_ClassArityChecked ==
    (prog.name \in {"NewArity", "ClassCall"} /\ prog.n # 2) =>
        /\ ~Printed("init")
        /\ \A e \in DOMAIN envs : "a" \notin DOMAIN envs[e].values
        /\ status # "running" =>
              /\ status = "returned"
              /\ output = <<Report("Expected 2 arguments but got "
                                   \o IntStr(prog.n) \o ".")>>

\* C8: in the chain A <- B <- C where every class overrides m, super.m in
\* C's m reaches B's m and super.m in B's m reaches A's m, on the same
\* instance: c.m() is "C" + "B" + "A".
C8_SuperStartsAtDeclaringClass ==
    (prog.name = "Super3" /\ status # "running") =>
        /\ status = "returned"
        /\ output = <<"CBA", "end">>

\* C9: the closure returned by make() shares make's environment by
\* reference: the k-th call of the returned function returns k.
C9_ClosureCountsCalls ==
    prog.name = "Closure" =>
        /\ \A i \in DOMAIN output : output[i] = IntStr(i)
        /\ status # "running" => (status = "returned" /\ Len(output) = prog.n)

C9_Witness ==
    /\ prog.name = "Closure" /\ prog.n >= 2
    /\ status = "returned"
    /\ Len(output) = prog.n

\* C10: a name first assigned inside a block is gone after the block
\* (reading it raises the undefined-variable error), while an assignment in
\* the block to a name of an enclosing scope changes that binding for good.
C10_BlockScoping ==
    /\ prog.name = "BlockLocal" =>
          /\ "y" \notin DOMAIN envs[Globals].values
          /\ \A e \in DOMAIN envs : e # Globals => "x" \notin DOMAIN envs[e].values
          /\ status # "running" =>
                /\ status = "returned"
                /\ output = <<"3", "2", Report("Undefined variable 'y'.")>>
                /\ envs[Globals].values["x"] = Num(2)
    /\ prog.name = "BlockAssign" =>
          /\ \A e \in DOMAIN envs : e # Globals => "x" \notin DOMAIN envs[e].values
          /\ status # "running" =>
                /\ status = "returned"
                /\ output = <<"2">>
                /\ envs[Globals].values["x"] = Num(2)

\* the block has been left, x kept the value assigned in it, and the read of
\* y after the block has raised
C10_Witness ==
    /\ prog.name = "BlockLocal" /\ status = "returned"
    /\ Len(envs) = 2 /\ "y" \in DOMAIN envs[2].values
    /\ envs[Globals].values["x"] = Num(2)
    /\ raised # <<>> /\ raised[1].msg = "Undefined variable 'y'."

\* C11: assigning to a name that no scope of the chain defines never fails
\* and defines it in the current scope only (y in the call's scope, z in the
\* block's scope, neither in the global scope); assigning to a name that a
\* scope of the chain defines overwrites that binding in place, the global x
\* from inside f's body included, and creates no local binding.
C11_AssignDefinesOrOverwrites ==
    prog.name = "AssignScopes" =>
        /\ \A i \in DOMAIN raised : raised[i].msg = "Undefined variable 'y'."
                                     /\ raised[i].at = Len(statements)
        /\ \A e \in DOMAIN envs :
               /\ "x" \in DOMAIN envs[e].values => e = Globals
               /\ "y" \in DOMAIN envs[e].values =>
                      e # Globals /\ envs[e].enclosing = Globals
               /\ "z" \in DOMAIN envs[e].values =>
                      /\ e # Globals /\ envs[e].enclosing # Globals
                      /\ "y" \in DOMAIN envs[envs[e].enclosing].values
                      /\ "y" \notin DOMAIN envs[e].values
        /\ status # "running" =>
              /\ status = "returned"
              /\ output = <<"4", "2", Report("Undefined variable 'y'.")>>
              /\ envs[Globals].values["x"] = Num(2)

\* f has returned: the global x was overwritten from inside f, y lives in
\* the scope of f's call with the value assigned in the block, and z lives
\* in the block's scope
C11_Witness ==
    /\ prog.name = "AssignScopes" /\ status = "returned"
    /\ Len(envs) = 3
    /\ envs[Globals].values["x"] = Num(2)
    /\ envs[2].values = [y \in {"y"} |-> Num(4)]
    /\ envs[3].values = [z \in {"z"} |-> Num(5)]

\* the bindings of the three activations of rec(n, m)
RecBindings ==
    { [n |-> Num(2), m |-> Num(0)], [n |-> Num(1), m |-> Num(2)],
      [n |-> Num(0), m |-> Num(1)] }

\* a call of a user function creates one Environment and changes no other
CallCreatesEnvironment ==
    (status = "running" /\ ctl.m = "call" /\ ctl.callee.t = "fun") =>
        /\ Len(envs') = Len(envs) + 1
        /\ \A e \in DOMAIN envs : envs'[e] = envs[e]
        /\ envs'[Len(envs')].enclosing = ctl.callee.closure
        /\ \A i \in DOMAIN ctl.callee.declaration.params :
               i <= Len(ctl.arguments) =>
                  envs'[Len(envs')].values[ctl.callee.declaration.params[i]]
                     = ctl.arguments[i]

\* C12: every call of a user function creates a fresh Environment whose
\* parent is the function's closure and binds the parameters positionally
\* there; the callee does not see the caller's local v, and the nested calls
\* of rec leave the parameters of the pending activations as they were.
C12_CallEnvironment ==
    /\ [][CallCreatesEnvironment]_vars
    /\ [](prog.name = "CallScope" =>
            /\ \A e \in DOMAIN envs :
                   /\ (e # Globals /\ DOMAIN envs[e].values # {}) =>
                          envs[e].enclosing = Globals
                   /\ "n" \in DOMAIN envs[e].values =>
                          envs[e].values \in RecBindings
            /\ status # "running" =>
                  /\ status = "returned"
                  /\ output = <<"0", "1", "1", "2", "2", "0",
                                Report("Undefined variable 'v'.")>>)

\* the three activations of rec were pending together, and callee's read of
\* the caller's local v has failed
C12_Witness ==
    /\ prog.name = "CallScope" /\ status = "returned"
    /\ \A b \in RecBindings : \E e \in DOMAIN envs : envs[e].values = b
    /\ \E e \in DOMAIN envs : envs[e].values = [v \in {"v"} |-> Num(1)]
    /\ raised # <<>> /\ raised[1].msg = "Undefined variable 'v'."

\* an assignment stores the value it was given and a call binds the
\* arguments it was given: neither allocates or changes an object
NoCopyStep ==
    /\ (status = "running" /\ ctl.m = "value" /\ kont # <<>>
           /\ Top.f = "visit_assign_expr") =>
          /\ heap' = heap
          /\ \E e \in DOMAIN envs' : /\ Top.name \in DOMAIN envs'[e].values
                                      /\ envs'[e].values[Top.name] = ctl.v
    /\ (status = "running" /\ ctl.m = "call" /\ ctl.callee.t = "fun") =>
          heap' = heap

ObjectsOfKind(k) == {a \in DOMAIN heap : heap[a].k = k}

\* C13: lists, maps and instances are shared by reference: a and b, m and
\* n, p and q (and the parameters l, d, i of f) name one object each, so
\* every mutation made through one name is read through the other;
\* assignment and argument passing never copy.
C13_AggregatesShared ==
    /\ [][NoCopyStep]_vars
    /\ [](prog.name = "SharedAggregates" =>
            /\ \A k \in {"list", "dict", "instance"} :
                   Cardinality(ObjectsOfKind(k)) <= 1
            /\ status # "running" =>
                  /\ status = "returned"
                  /\ output = <<"[9, 2, 3]", "{k: 2, j: 3}", "[9, 2]",
                                "{k: 2, j: 3, z: 0}", "1", "5">>)

\* f has mutated the three objects it was passed, and both names of each
\* object still hold the same reference
C13_Witness ==
    /\ prog.name = "SharedAggregates" /\ status = "returned"
    /\ LET g == envs[Globals].values
       IN  /\ g["a"] = g["b"] /\ g["m"] = g["n"] /\ g["p"] = g["q"]
           /\ Len(heap[g["a"].a].items) = 2
           /\ Len(heap[g["m"].a].keys) = 3
           /\ heap[g["p"].a].fields["x"] = Num(5)

\* C14: `new` on a class yields the newly allocated instance of that class:
\* init, found in the superclass A of B, runs bound to the new instance with
\* the arguments of the call, and the 42 it returns is discarded; a class
\* without init yields its new instance as well.
C14_ConstructionYieldsInstance ==
    prog.name = "InitReturn" =>
        /\ \A name \in {"b", "n"} :
               name \in DOMAIN envs[Globals].values =>
                  LET v == envs[Globals].values[name]
                  IN  /\ v.t = "instance"
                      /\ heap[v.a].k = "instance"
                      /\ heap[heap[v.a].klass].name = (IF name = "b" THEN "B" ELSE "N")
                      /\ name = "b" => heap[v.a].fields = [f \in {"v"} |-> Num(7)]
        /\ status # "running" =>
              /\ status = "returned"
              /\ output = <<"7", "1", "end">>

\* both constructions are done: b is the instance init has initialised
C14_Witness ==
    /\ prog.name = "InitReturn" /\ status = "returned"
    /\ envs[Globals].values["b"].t = "instance"
    /\ heap[envs[Globals].values["b"].a].fields["v"] = Num(7)
    /\ envs[Globals].values["n"].t = "instance"
    /\ envs[Globals].values["n"] # envs[Globals].values["b"]

\* C15: a property read on an instance returns the field when the name is a
\* field (the field m shadows the method m); otherwise the first method of
\* that name from the instance's class upwards (B's m, then A's k), bound to
\* the instance (k reads this.n); otherwise it fails with the undefined
\* property error and leaves the fields as they were.
C15_PropertyRead ==
    prog.name = "PropertyRead" =>
        /\ \A i \in DOMAIN raised :
               /\ raised[i].msg = "Undefined property 'zz'."
               /\ raised[i].cls \in TaxonomyClasses
               /\ raised[i].out = 3
        /\ \A i \in DOMAIN output : output[i] = <<"B.m", "7", "5">>[i]
        /\ status # "running" =>
              /\ Len(raised) = 1
              /\ output = <<"B.m", "7", "5">>
              /\ heap[envs[Globals].values["b"].a].fields =
                    [f \in {"n", "m"} |-> IF f = "n" THEN Num(7) ELSE Num(5)]

\* the read of b.zz has failed after the three successful reads
C15_Witness ==
    /\ prog.name = "PropertyRead"
    /\ raised # <<>> /\ raised[1].msg = "Undefined property 'zz'."
    /\ output = <<"B.m", "7", "5">>
    /\ DOMAIN heap[envs[Globals].values["b"].a].fields = {"n", "m"}

\* a property read that resolves to a method creates one Environment, whose
\* parent is the method's closure and whose only binding is this, returns a
\* new Function closing over it, and changes nothing that exists
BindStep ==
    (/\ status = "running" /\ ctl.m = "value" /\ kont # <<>>
     /\ Top.f = "visit_get_expr" /\ ctl.v.t = "instance"
     /\ LoxInstance_get(heap, ctl.v.a, Top.expr.name).r = "method") =>
        LET method == LoxInstance_get(heap, ctl.v.a, Top.expr.name).v
            new == Len(envs) + 1
        IN  /\ heap' = heap
            /\ Len(envs') = new
            /\ \A e \in DOMAIN envs : envs'[e] = envs[e]
            /\ envs'[new] = [values |-> [n \in {"this"} |-> ctl.v],
                             enclosing |-> method.closure]
            /\ ctl' = Value(Function(method.declaration, new))

\* C16: binding is done on every lookup and mutates nothing shared: each
\* access that resolves to a method returns a new Function over a new
\* Environment holding this, the class's method table and its closure stay
\* as they were, and the methods read from a and from b each see their own
\* instance, in whatever order they are called.
C16_BindingFreshAndPrivate ==
    /\ [][BindStep]_vars
    /\ [](prog.name = "MethodBinding" =>
            /\ "this" \notin DOMAIN envs[Globals].values
            /\ \A c \in ObjectsOfKind("class") :
                   heap[c].methods["who"].closure = Globals
            /\ \A n1, n2 \in {"f", "g", "h"} :
                   (n1 # n2 /\ {n1, n2} \subseteq DOMAIN envs[Globals].values) =>
                      envs[Globals].values[n1].closure
                         # envs[Globals].values[n2].closure
            /\ status # "running" =>
                  /\ status = "returned"
                  /\ output = <<"a", "b", "a", "a">>)

\* the three bound methods exist and have been called
C16_Witness ==
    /\ prog.name = "MethodBinding" /\ status = "returned"
    /\ {"f", "g", "h"} \subseteq DOMAIN envs[Globals].values
    /\ envs[envs[Globals].values["f"].closure].values["this"]
          = envs[Globals].values["a"]
    /\ envs[envs[Globals].values["g"].closure].values["this"]
          = envs[Globals].values["b"]
    /\ Len(output) = 4

\* a function declaration defines its name in the current scope and leaves
\* every other scope as it was
DefineStep ==
    (status = "running" /\ ctl.m = "exec" /\ ctl.node.k = "function") =>
        /\ Len(envs') = Len(envs)
        /\ \A e \in DOMAIN envs : e # environment => envs'[e] = envs[e]
        /\ ctl.node.name \in DOMAIN envs'[environment].values

\* C17: define writes the receiving scope only: while the loop variable x,
\* the parameter x and the function x declared in a block shadow the global
\* x, the global binding keeps its value 1, and each outer binding is read
\* again once the inner scope is left.
C17_DefineShadowsOnly ==
    /\ [][DefineStep]_vars
    /\ [](prog.name = "Shadowing" =>
            /\ "x" \in DOMAIN envs[Globals].values =>
                   envs[Globals].values["x"] = Num(1)
            /\ started >= 2 => "x" \in DOMAIN envs[Globals].values
            /\ \A e \in DOMAIN envs :
                   (e # Globals /\ envs[e].enclosing = Globals
                    /\ envs[e].values # EmptyMap) =>
                      envs[e].values \in
                         {[n \in {"x"} |-> Num(v)] : v \in {2, 7, 8}}
            /\ status # "running" =>
                  /\ status = "returned"
                  /\ output = <<"7", "8", "1", "2", "<function x>", "2", "1">>)

\* the function x is defined in the block of f while the parameter x and
\* the global x keep their values
C17_Witness ==
    /\ prog.name = "Shadowing" /\ status = "running"
    /\ "x" \in DOMAIN envs[environment].values
    /\ envs[environment].values["x"].t = "fun"
    /\ envs[envs[environment].enclosing].values["x"] = Num(2)
    /\ envs[Globals].values["x"] = Num(1)

\* the kinds of value the immutable subset of Value consists of
ImmutableKinds == {"nil", "bool", "int", "float", "str"}

\* C18: in every reachable state every key of every map is a Nil, Bool,
\* Number or String; using a list or a map as a key, in a map literal or in
\* m[k] = v, fails with a runtime error that interpret reports, and leaves
\* the existing map unchanged.
C18_MapKeysImmutable ==
    /\ \A a \in ObjectsOfKind("dict") :
           \A i \in DOMAIN heap[a].keys : heap[a].keys[i].t \in ImmutableKinds
    /\ (/\ prog.name \in {"KeyLiteral", "KeyAssign"}
        /\ status # "running"
        /\ envs[Globals].values["l"].t \in {"list", "dict"}) =>
           /\ status = "returned"
           /\ Len(raised) = 1
           /\ output = <<Report(raised[1].msg)>>
           /\ prog.name = "KeyAssign" =>
                  /\ heap[envs[Globals].values["m"].a].keys = <<Str("a")>>
                  /\ heap[envs[Globals].values["m"].a].vals = <<Num(1)>>

\* C19: when exactly one operand of l + r is a String, the result is the
\* concatenation of that string with stringify of the other operand (Nil as
\* "nil", Bool as "true"/"false", 3.0 as "3", a list as "[1, a]").
C19_PlusStringifiesOther ==
    (/\ prog.name = "BinaryOf"
     /\ Operators[OpOf(prog.n)] = "PLUS"
     /\ status # "running"
     /\ (envs[Globals].values["l"].t = "str") # (envs[Globals].values["r"].t = "str")) =>
        /\ status = "returned"
        /\ output = << (IF envs[Globals].values["l"].t = "str"
                           THEN envs[Globals].values["l"].v
                                \o stringify(heap, envs[Globals].values["r"])
                           ELSE stringify(heap, envs[Globals].values["l"])
                                \o envs[Globals].values["r"].v),
                       "end" >>

\* C20: for -, /, % and ^ an operand that is not a Number, a Bool included,
\* makes the operation fail with a TypeMismatch runtime error.
C20_ArithmeticNeedsNumbers ==
    (/\ prog.name = "BinaryOf"
     /\ Operators[OpOf(prog.n)] \in {"MINUS", "SLASH", "MODULO", "EXPODENT"}
     /\ status # "running"
     /\ \/ envs[Globals].values["l"].t \notin {"int", "float"}
        \/ envs[Globals].values["r"].t \notin {"int", "float"}) =>
        /\ status = "returned"
        /\ Len(raised) = 1
        /\ raised[1].cls = "RuntimeError"
        /\ output = <<Report(raised[1].msg)>>

\* the message of the error that l <op> 0 must fail with
ZeroMessage(op) ==
    IF op = "SLASH" THEN "Division by zero." ELSE "Modulo by zero."

\* the program is print l / r or print l % r with l a number and r a zero
DividesByZero ==
    /\ prog.name = "BinaryOf"
    /\ Operators[OpOf(prog.n)] \in {"SLASH", "MODULO"}
    /\ {"l", "r"} \subseteq DOMAIN envs[Globals].values
    /\ envs[Globals].values["l"].t \in {"int", "float"}
    /\ envs[Globals].values["r"].t \in {"int", "float"}
    /\ NumVal(envs[Globals].values["r"]) = 0

\* C21: for every number a, a / 0 and a % 0 fail with the division and the
\* modulo error, for the integer 0 and the float 0.0 alike; no value is ever
\* produced (nothing but the report is printed) and the error ends the
\* program: it is reported once and the statement after it never runs.
C21_ZeroDivisorFails ==
    DividesByZero =>
        /\ output \in {<<>>, <<Report(ZeroMessage(Operators[OpOf(prog.n)]))>>}
        /\ status # "running" =>
               /\ status = "returned"
               /\ Len(raised) = 1
               /\ raised[1].cls = "RuntimeError"
               /\ raised[1].msg = ZeroMessage(Operators[OpOf(prog.n)])
               /\ output = <<Report(ZeroMessage(Operators[OpOf(prog.n)]))>>

C21_Witness ==
    /\ DividesByZero
    /\ Operators[OpOf(prog.n)] = "MODULO"
    /\ envs[Globals].values["l"].t = "float"
    /\ envs[Globals].values["r"].t = "float"
    /\ status = "returned"
    /\ output = <<Report("Modulo by zero.")>>

\* the program v = p(l) <op> q(r) has ended; p prints "left", q "right"
LogicalEnded == prog.name = "LogicalOf" /\ status # "running"

\* the left operand decides l <op> r: it is falsy under and, truthy under or
LeftDecides ==
    IF OpOf(prog.n) = 1
    THEN ~is_truthy(heap, envs[Globals].values["l"])
    ELSE is_truthy(heap, envs[Globals].values["l"])

\* C22: and/or short-circuit: the left operand is evaluated exactly once, the
\* right operand (with its side effect) only when the left does not decide,
\* and the result is the unchanged value of the deciding operand, the same
\* object and never a coerced boolean.
C22_LogicalShortCircuits ==
    LogicalEnded =>
        /\ status = "returned"
        /\ raised = <<>>
        /\ envs[Globals].values["v"] =
              (IF LeftDecides THEN envs[Globals].values["l"]
               ELSE envs[Globals].values["r"])
        /\ output = <<"left">> \o (IF LeftDecides THEN <<>> ELSE <<"right">>)
                     \o << stringify(heap, envs[Globals].values["v"]), "end" >>

C22_Witness ==
    /\ LogicalEnded
    /\ OpOf(prog.n) = 1
    /\ envs[Globals].values["l"].t = "list"
    /\ envs[Globals].values["r"].t = "int"
    /\ envs[Globals].values["r"].v = 0
    /\ envs[Globals].values["v"] = envs[Globals].values["r"]
    /\ output = <<"left", "right", "0", "end">>

\* a for-each statement takes a step: its iterable has been evaluated, or
\* its body has ended normally or by a raise
ForEachActs ==
    /\ status = "running" /\ kont # <<>> /\ Top.f = "visit_foreach_stmt"
    /\ ctl.m = "value" \/ (ctl.m = "raise" /\ Top.phase = "body")

\* the environment that was current when the for-each on top was entered
EntryEnvironment ==
    IF Top.phase = "body" THEN Top.previous_env ELSE environment

\* a step of a for-each either starts an iteration, in a new child of the
\* environment of loop entry that binds only the loop variable, to the
\* current element of the collection, or leaves the loop with the register
\* back at the environment of loop entry
ForEachStep ==
    ForEachActs =>
        IF kont' # <<>> /\ Len(kont') = Len(kont) /\ ctl'.m = "exec"
        THEN /\ Len(envs') = Len(envs) + 1
             /\ \A e \in DOMAIN envs : envs'[e] = envs[e]
             /\ environment' = Len(envs')
             /\ envs'[Len(envs')].enclosing = EntryEnvironment
             /\ envs'[Len(envs')].values =
                  [n \in {Top.stmt.variable} |->
                      LET it == Head(kont').iterable
                          i == Head(kont').i
                      IN  CASE it.t = "list" -> heap[it.a].items[i]
                            [] it.t = "keys" -> it.items[i]
                            [] it.t = "str" -> Str(SubSeq(it.v, i, i))]
             /\ heap' = heap
        ELSE environment' = EntryEnvironment

\* C23: every iteration of a for-each runs in a new child environment of the
\* environment of loop entry with the loop variable bound to the current
\* element; assigning the loop variable in the body changes neither the
\* collection nor the binding of later iterations; the loop variable is not
\* defined in the enclosing environment; the register is restored after
\* every iteration, also when the body raises or returns.
C23_ForEachIteration ==
    /\ [][ForEachStep]_vars
    /\ [](prog.name = "ForEachScope" =>
            /\ \A o \in ObjectsOfKind("list") : heap[o].items = <<Num(1), Num(2)>>
            /\ DOMAIN envs[Globals].values \cap {"v", "w", "u"} = {}
            /\ status # "running" =>
                  /\ status = "returned"
                  /\ environment = Globals
                  /\ output = <<"1", "11", "2", "12", "[1, 2]", "11", "[1, 2]",
                                Report("Undefined variable 'zz'.")>>)

\* the loop variable was assigned in bodies that ended normally, by a return
\* and by an error, and the program has ended
C23_Witness ==
    /\ prog.name = "ForEachScope" /\ status = "returned"
    /\ \E e \in DOMAIN envs : envs[e].values = [n \in {"v"} |-> Num(12)]
    /\ \E e \in DOMAIN envs : envs[e].values = [n \in {"w"} |-> Num(11)]
    /\ \E e \in DOMAIN envs : envs[e].values = [n \in {"u"} |-> Num(0)]
    /\ environment = Globals

\* the number of arguments of the call on top that are evaluated once the
\* value in ctl is taken
ArgumentsDone == IF Top.phase = "callee" THEN 0 ELSE Len(Top.arguments) + 1

\* a step of a call expression that has a value in hand: while an argument
\* is left, the next one to the right is evaluated whatever the callee is;
\* with none left, a callee that is no function and no class fails the call
CallStep ==
    Returning("visit_call_expr") =>
        IF ArgumentsDone < Len(Top.expr.arguments)
        THEN /\ ctl' = Eval(Top.expr.arguments[ArgumentsDone + 1])
             /\ raised' = raised
        ELSE LET callee == IF Top.phase = "callee" THEN ctl.v ELSE Top.callee
             IN  callee.t \notin {"fun", "builtin", "class"} =>
                    /\ ctl'.m = "raise"
                    /\ ctl'.exc.cls = "RuntimeError"
                    /\ ctl'.exc.msg = "Can only call functions and classes: "
                                      \o TypeName(callee)

\* C24: a call expression evaluates the callee, then every argument from left
\* to right, and only then checks that the callee is callable and its arity:
\* a call of a non-callable fails with the not-callable error after all its
\* arguments had their side effects, in order.
C24_ArgumentsBeforeChecks ==
    /\ [][CallStep]_vars
    /\ [](status # "running" =>
            /\ prog.name = "CallOrder" =>
                  /\ status = "returned"
                  /\ output = <<"0", "1", "2",
                                Report("Can only call functions and classes: int")>>
            /\ prog.name = "CallArityOrder" =>
                  /\ status = "returned"
                  /\ output = <<"1", "2",
                                Report("Expected 1 arguments but got 2.")>>)

C24_Witness ==
    /\ prog.name = "CallOrder" /\ status = "returned"
    /\ output = <<"0", "1", "2", Report("Can only call functions and classes: int")>>

\* C25: when interpret has returned, after the last statement or after the
\* report of a runtime error raised at any depth of blocks, for-each bodies
\* and calls, the current-environment register is the global environment;
\* it is the global environment too whenever interpret is about to start a
\* top-level statement.
C25_RegisterGlobalAtTopLevel ==
    /\ status = "returned" => environment = Globals
    /\ (status = "running" /\ kont # <<>> /\ Top.f = "interpret"
           /\ ctl.m = "value") =>
          environment = Globals

\* an error raised in a for-each body in a block of a function called from a
\* for-each body in a block was reported, and environments were created
C25_Witness ==
    /\ prog.name = "DeepError" /\ status = "returned"
    /\ output = <<Report("Undefined variable 'zz'.")>>
    /\ Len(envs) >= 7
    /\ environment = Globals

\* C26: every return signal raised while interpret runs is raised under a
\* Function.call that catches it; none escapes interpret as an exception of
\* the host.
C26_ReturnSignalsCaught ==
    IsReturn(ctl) =>
        /\ status # "escaped"
        /\ CountFrames(kont, "Function.call") > 0

\* C27: a for-each executes its body once for each element that the
\* collection held when the loop was entered, also when the body adds
\* elements to the collection: the loop over a = [1] prints 1 only, the loop
\* over the map prints its one key, the loop over "ab" prints a and b.
C27_ForEachOverEntryElements ==
    status # "running" =>
        /\ prog.name = "ForEachAppend" =>
              /\ status = "returned"
              /\ output = <<"1", "[1, 2]", "end">>
        /\ prog.name = "ForEachSnapshot" =>
              /\ status = "returned"
              /\ output = <<"a", "2", "a", "b", "end">>

\* C28: new N(args) fails with a runtime error or evaluates to an instance of
\* the class bound to N; with N bound to a function it never evaluates to
\* what the function returns: x = new f(5) binds x to nothing but an
\* instance, and as f is no class the program ends with the reported error.
C28_NewYieldsInstance ==
    prog.name = "NewFunction" =>
        /\ "x" \in DOMAIN envs[Globals].values =>
              envs[Globals].values["x"].t = "instance"
        /\ status # "running" =>
              /\ status = "returned"
              /\ Len(raised) = 1
              /\ output = <<Report(raised[1].msg)>>

\* the programs that declare a class whose superclass is the class itself
\* (declared for the first time, or declared before), an undefined name, or
\* a function
BadSuperclass == {"SuperSelf", "SuperRedeclared", "SuperUndefined", "SuperNonClass"}

\* C29: the superclass chain of every class is finite and acyclic: the
\* superclass of a class is a class that was created before it. A class
\* declaration whose superclass names the class itself, an undefined name or
\* a value that is no class fails with a runtime error and creates no class.
C29_SuperclassChainAcyclic ==
    /\ \A c \in ObjectsOfKind("class") :
           \/ heap[c].superclass = 0
           \/ /\ heap[c].superclass < c
              /\ heap[heap[c].superclass].k = "class"
    /\ prog.name \in BadSuperclass =>
          /\ Cardinality(ObjectsOfKind("class")) <=
                (IF prog.name = "SuperRedeclared" THEN 1 ELSE 0)
          /\ status # "running" =>
                /\ status = "returned"
                /\ Len(raised) = 1
                /\ raised[1].cls = "RuntimeError"
                /\ output = <<Report(raised[1].msg)>>

\* the declaration class A < A { } after class A { } has failed, and the
\* only class is the first A, which has no superclass
C29_Witness ==
    /\ prog.name = "SuperRedeclared" /\ status = "returned"
    /\ output = <<Report("Superclass must be a class.")>>
    /\ Cardinality(ObjectsOfKind("class")) = 1
    /\ envs[Globals].values["A"] = Nil

\* C30: pop(list) and list.pop() behave alike: on a non-empty list each
\* removes and returns the last element, on an empty list each fails with a
\* runtime error and leaves the list as it is. In PopForms the first pop of
\* the empty list c is c.pop(), so the program ends there with the report.
C30_PopFormsAgree ==
    (prog.name = "PopForms" /\ status # "running") =>
        /\ status = "returned"
        /\ Len(raised) = 1
        /\ output = <<"3", "[1, 2]", "2", "[1]", Report(raised[1].msg)>>

====
